---- MODULE Spec2Model ----
(***************************************************************************)
(* OnBoard-Assist: the retrieval-augmented chat pipeline (routes/chat.js), *)
(* the language-model gateway (services/GeminiService), and the Mongoose   *)
(* models Conversation, KnowledgeBase and Feedback.                        *)
(*                                                                         *)
(* Every request handler is an async function; Node runs the code between  *)
(* two awaits atomically, so a handler is modelled as one action per       *)
(* await-delimited segment, and handlers of different requests interleave  *)
(* at their awaits.                                                        *)
(***************************************************************************)
EXTENDS Integers, Sequences, FiniteSets, TLC

(***************************************************************************)
(* Bounds of the model.                                                    *)
(***************************************************************************)
\* Number of requests that can be in flight at the same time.
NumSlots == 2
\* Number of chat turns that pass validation in one behaviour.
MaxChats == 2
\* Number of feedback documents ever written in one behaviour.
MaxFeedbacks == 1
\* Number of chat turns in one behaviour of the specification of concurrent
\* turns.
MaxRaceChats == 3
\* Latest time, in milliseconds, that the clock is followed to.
MaxClock == 3

(***************************************************************************)
(* Program constants.                                                      *)
(***************************************************************************)
MaxMessageLength == 1000
SearchLimit == 7
QuickReplyLimit == 5

(***************************************************************************)
(* Strings.  A string is a sequence of runs; a run is n >= 1 copies of one *)
(* character class: "sp" is a whitespace character, "star" is '*', "hash"  *)
(* is '#', "code" is a fenced code block, and any other name is a word     *)
(* (a maximal run of non-blank characters that the text index sees as one  *)
(* term).  Adjacent runs never have the same class.                        *)
(***************************************************************************)
Run(c, n) == [ch |-> c, n |-> n]

RECURSIVE StrLen(_)
StrLen(s) == IF s = <<>> THEN 0 ELSE Head(s).n + StrLen(Tail(s))

RECURSIVE TrimLeft(_)
TrimLeft(s) ==
  IF s = <<>> THEN <<>>
  ELSE IF Head(s).ch = "sp" THEN TrimLeft(Tail(s)) ELSE s

RECURSIVE TrimRight(_)
TrimRight(s) ==
  IF s = <<>> THEN <<>>
  ELSE IF s[Len(s)].ch = "sp" THEN TrimRight(SubSeq(s, 1, Len(s) - 1)) ELSE s

\* String.prototype.trim
Trim(s) == TrimRight(TrimLeft(s))

\* The words of a text, as the full-text index tokenises it.
Words(s) == {s[i].ch : i \in {j \in 1..Len(s) : s[j].ch \notin {"sp", "star", "hash", "code"}}}

\* Joins adjacent runs of the same class, so that a string has one form.
RECURSIVE Normalize(_)
Normalize(s) ==
  IF Len(s) < 2 THEN s
  ELSE IF s[1].ch = s[2].ch
       THEN Normalize(<<Run(s[1].ch, s[1].n + s[2].n)>> \o SubSeq(s, 3, Len(s)))
       ELSE <<s[1]>> \o Normalize(Tail(s))

(***************************************************************************)
(* Users.  The auth middleware injects the verified token payload          *)
(* {id, email, role, name} as req.user.                                    *)
(***************************************************************************)
Roles == {"employee", "admin", "hr"}
Users == {"u1", "u2"}
RoleOf(u) == IF u = "u1" THEN "employee" ELSE "admin"

(***************************************************************************)
(* Language-model gateway (GeminiService.generateResponse).                *)
(***************************************************************************)
\* What this.model.generateContent / response.text() can do: return a raw
\* text, or throw an Error whose message names the cause.
RawOutputs ==
  { <<Run("answer", 20)>>,
    <<Run("star", 2), Run("answer", 20), Run("sp", 1)>>,
    <<Run("hash", 1), Run("sp", 1), Run("answer", 20)>>,
    <<Run("code", 12)>>,
    <<>> }
ThrowKinds == {"API_KEY_INVALID", "quota", "network", "malformed"}
GatewayOutcomes ==
  {[kind |-> "text", raw |-> r, cause |-> "none"] : r \in RawOutputs} \cup
  {[kind |-> "throw", raw |-> <<>>, cause |-> c] : c \in ThrowKinds}

\* .replace(/^\*+/gm, '')
StripStars(s) == IF s # <<>> /\ Head(s).ch = "star" THEN Tail(s) ELSE s
\* .replace(/^#+\s*/gm, '')
StripHeaders(s) ==
  IF s # <<>> /\ Head(s).ch = "hash"
  THEN IF Len(s) >= 2 /\ s[2].ch = "sp" THEN SubSeq(s, 3, Len(s)) ELSE Tail(s)
  ELSE s
\* .replace(/```[\s\S]*?```/g, '')
RECURSIVE StripCode(_)
StripCode(s) ==
  IF s = <<>> THEN <<>>
  ELSE IF Head(s).ch = "code" THEN StripCode(Tail(s))
       ELSE <<Head(s)>> \o StripCode(Tail(s))

CleanResponse(raw) == Trim(Normalize(StripCode(StripHeaders(StripStars(raw)))))

ServiceUnavailableText == <<Run("unavailable", 142)>>
MockFallbackText(userQuestion) ==
  <<Run("mockPrefix", 182)>> \o userQuestion \o <<Run("mockSuffix", 26)>>

Resolved(text) == [rejected |-> FALSE, text |-> text]
Rejected == [rejected |-> TRUE, text |-> <<>>]

FallbackFor_Rethrow(cause, userQuestion) ==
  IF cause \in {"API_KEY_INVALID", "quota"}
  THEN Resolved(ServiceUnavailableText)
  ELSE Rejected

\* The catch block of generateResponse.
FallbackFor(cause, userQuestion) ==
  IF cause \in {"API_KEY_INVALID", "quota"}
  THEN Resolved(ServiceUnavailableText)
  ELSE Resolved(MockFallbackText(userQuestion))

\* generateResponse(userQuestion, context, userRole, userName): the promise
\* it returns either resolves to a text or rejects.
GenerateResponse(outcome, userQuestion) ==
  IF outcome.kind = "text"
  THEN Resolved(CleanResponse(outcome.raw))
  ELSE FallbackFor(outcome.cause, userQuestion)

(***************************************************************************)
(* Knowledge base (models/KnowledgeBase.js).                               *)
(***************************************************************************)
Categories == {"policy", "benefits", "it", "hr", "general", "admin-only", "hr-only"}

\* Relevance of an entry for a query under the weighted text index
\* (title 10, content 1); 0 when no term of the query occurs in the entry.
TitleWeight == 10
ContentWeight == 1
TextScore(entry, query) ==
  TitleWeight * Cardinality(entry.title \cap Words(query)) +
  ContentWeight * Cardinality(entry.content \cap Words(query))

Visible_NoRoleFilter(entry, userRole) == entry.isActive

\* The filter of searchByRole.
Visible(entry, userRole) ==
  /\ entry.isActive
  /\ \/ userRole \in entry.accessRoles
     \/ entry.accessRoles = {}

Eligible(kbs, query, userRole) ==
  {e \in DOMAIN kbs : TextScore(kbs[e], query) > 0 /\ Visible(kbs[e], userRole)}

Min(a, b) == IF a < b THEN a ELSE b

\* searchByRole(query, userRole, limit): the result lists the store can
\* return: the limit best eligible entries by descending score; the order
\* among entries of equal score is the store's choice.
SearchByRole(kbs, query, userRole, limit) ==
  LET el == Eligible(kbs, query, userRole)
      n == Min(limit, Cardinality(el))
  IN {r \in [1..n -> el] :
        /\ \A i, j \in 1..n : i # j => r[i] # r[j]
        /\ \A i, j \in 1..n :
             i < j => TextScore(kbs[r[i]], query) >= TextScore(kbs[r[j]], query)
        /\ \A e \in el : (\A i \in 1..n : r[i] # e) =>
             \A i \in 1..n : TextScore(kbs[r[i]], query) >= TextScore(kbs[e], query)}

\* searchKnowledgeBase(query, userRole): the mapped results, or [] when the
\* search throws.
ContextOf(kbs, r) == [i \in 1..Len(r) |-> [id |-> r[i], category |-> kbs[r[i]].category]]
SearchKnowledgeBase(kbs, query, userRole, searchOk) ==
  IF searchOk
  THEN {ContextOf(kbs, r) : r \in SearchByRole(kbs, query, userRole, SearchLimit)}
  ELSE {<<>>}

\* The entries the administrators have stored: an ordinary upload (visible
\* to employees), an admin-only document, an entry without access roles and
\* a deactivated entry.
KbIds == {"k1", "k2", "k3", "k4"}
SeedKnowledge ==
  [e \in KbIds |->
     CASE e = "k1" -> [title |-> {"hours", "vpn"}, content |-> {},
                       category |-> "policy", accessRoles |-> {"employee"},
                       isActive |-> TRUE, viewCount |-> 0]
       [] e = "k2" -> [title |-> {"vpn"}, content |-> {"hours"},
                       category |-> "admin-only", accessRoles |-> {"admin"},
                       isActive |-> TRUE, viewCount |-> 0]
       [] e = "k3" -> [title |-> {}, content |-> {"vpn"},
                       category |-> "it", accessRoles |-> {},
                       isActive |-> TRUE, viewCount |-> 0]
       [] OTHER    -> [title |-> {"hours", "vpn"}, content |-> {},
                       category |-> "general", accessRoles |-> {"employee", "admin", "hr"},
                       isActive |-> FALSE, viewCount |-> 0]]

(***************************************************************************)
(* Quick replies (generateQuickReplies, chat.js 32-63).                    *)
(***************************************************************************)
DefaultReplies ==
  << "What are the working hours?", "How do I request vacation?",
     "Who do I contact for IT issues?", "What benefits are available?" >>

\* labels[cat] || `${cat} info`
CategoryLabel(cat) ==
  CASE cat = "policy"   -> "Company policies"
    [] cat = "benefits" -> "Employee benefits"
    [] cat = "it"       -> "IT support"
    [] cat = "hr"       -> "HR questions"
    [] cat = "general"  -> "General information"
    [] OTHER            -> cat \o " info"

\* The elements of a Set built from xs, in insertion order: the first
\* occurrence of each value.
RECURSIVE Distinct(_)
Distinct(xs) ==
  IF xs = <<>> THEN <<>>
  ELSE LET rest == Distinct(SubSeq(xs, 1, Len(xs) - 1))
           last == xs[Len(xs)]
       IN IF \E i \in 1..Len(rest) : rest[i] = last THEN rest ELSE Append(rest, last)

Slice_AllReplies(xs, n) == xs

\* xs.slice(0, n)
Slice(xs, n) == SubSeq(xs, 1, Min(n, Len(xs)))

GenerateQuickReplies(userQuery, knowledgeResults, userRole) ==
  LET categories == Distinct([i \in 1..Len(knowledgeResults) |-> knowledgeResults[i].category])
      categoryReplies == [i \in 1..Len(categories) |-> CategoryLabel(categories[i])]
      allReplies == Distinct(DefaultReplies \o categoryReplies)
  IN Slice(allReplies, QuickReplyLimit)

(***************************************************************************)
(* Intent of a query (analyzeQueryIntent, chat.js 65-88).  Here a text is  *)
(* the sequence of its characters.                                         *)
(***************************************************************************)
UpperCase ==
  <<"A", "B", "C", "D", "E", "F", "G", "H", "I", "J", "K", "L", "M", 
     "N", "O", "P", "Q", "R", "S", "T", "U", "V", "W", "X", "Y", "Z">>
LowerCase ==
  <<"a", "b", "c", "d", "e", "f", "g", "h", "i", "j", "k", "l", "m", 
     "n", "o", "p", "q", "r", "s", "t", "u", "v", "w", "x", "y", "z">>
Digits == {"0", "1", "2", "3", "4", "5", "6", "7", "8", "9"}

\* String.prototype.toLowerCase, character by character.
ToLowerCase(text) ==
  [i \in 1..Len(text) |->
     IF \E k \in 1..Len(UpperCase) : UpperCase[k] = text[i]
     THEN LowerCase[CHOOSE k \in 1..Len(UpperCase) : UpperCase[k] = text[i]]
     ELSE text[i]]

\* \w
IsWordChar(c) ==
  \/ \E k \in 1..Len(LowerCase) : c = LowerCase[k] \/ c = UpperCase[k]
  \/ c \in Digits \/ c = "_"

WordBoundary_Anywhere(text, i) == TRUE

\* \b between text[i-1] and text[i]: one of the two is a word character and
\* the other is not, or is beyond the end of the text.
WordBoundary(text, i) ==
  LET wordAt(k) == k \in 1..Len(text) /\ IsWordChar(text[k])
  IN wordAt(i - 1) # wordAt(i)

\* The names of the intents in the order of the keys of the object intents,
\* which is the order that Object.entries gives.
Intents ==
  <<"greeting", "thanks", "policy", "benefit", "hr", "it", "emergency", "equipment", "training">>

\* The alternatives of the pattern of each intent.
Alternatives(intent) ==
  CASE intent = "greeting" ->
         { <<"h", "e", "l", "l", "o">>,
           <<"h", "i">>,
           <<"h", "e", "y">>,
           <<"g", "r", "e", "e", "t", "i", "n", "g", "s">>,
           <<"g", "o", "o", "d", " ", "m", "o", "r", "n", "i", "n", "g">>,
           <<"g", "o", "o", "d", " ", "a", "f", "t", "e", "r", "n", "o", "o", "n">>,
           <<"w", "e", "l", "c", "o", "m", "e">> }
    [] intent = "thanks" ->
         { <<"t", "h", "a", "n", "k", "s">>,
           <<"t", "h", "a", "n", "k", " ", "y", "o", "u">>,
           <<"a", "p", "p", "r", "e", "c", "i", "a", "t", "e">>,
           <<"g", "r", "a", "t", "e", "f", "u", "l">> }
    [] intent = "policy" ->
         { <<"p", "o", "l", "i", "c", "y">>,
           <<"p", "o", "l", "i", "c", "i", "e", "s">>,
           <<"r", "u", "l", "e">>,
           <<"r", "u", "l", "e", "s">>,
           <<"g", "u", "i", "d", "e", "l", "i", "n", "e">>,
           <<"g", "u", "i", "d", "e", "l", "i", "n", "e", "s">>,
           <<"p", "r", "o", "c", "e", "d", "u", "r", "e">> }
    [] intent = "benefit" ->
         { <<"b", "e", "n", "e", "f", "i", "t">>,
           <<"b", "e", "n", "e", "f", "i", "t", "s">>,
           <<"i", "n", "s", "u", "r", "a", "n", "c", "e">>,
           <<"h", "e", "a", "l", "t", "h">>,
           <<"4", "0", "1", "k">>,
           <<"r", "e", "t", "i", "r", "e", "m", "e", "n", "t">>,
           <<"w", "e", "l", "l", "n", "e", "s", "s">> }
    [] intent = "hr" ->
         { <<"h", "r">>,
           <<"h", "u", "m", "a", "n", " ", "r", "e", "s", "o", "u", "r", "c", "e", "s">>,
           <<"l", "e", "a", "v", "e">>,
           <<"v", "a", "c", "a", "t", "i", "o", "n">>,
           <<"h", "o", "l", "i", "d", "a", "y">>,
           <<"t", "i", "m", "e", " ", "o", "f", "f">>,
           <<"p", "t", "o">>,
           <<"p", "a", "y", "r", "o", "l", "l">> }
    [] intent = "it" ->
         { <<"i", "t">>,
           <<"t", "e", "c", "h">>,
           <<"t", "e", "c", "h", "n", "i", "c", "a", "l">>,
           <<"c", "o", "m", "p", "u", "t", "e", "r">>,
           <<"l", "a", "p", "t", "o", "p">>,
           <<"s", "o", "f", "t", "w", "a", "r", "e">>,
           <<"h", "a", "r", "d", "w", "a", "r", "e">>,
           <<"p", "a", "s", "s", "w", "o", "r", "d">>,
           <<"l", "o", "g", "i", "n">>,
           <<"e", "m", "a", "i", "l">> }
    [] intent = "emergency" ->
         { <<"e", "m", "e", "r", "g", "e", "n", "c", "y">>,
           <<"u", "r", "g", "e", "n", "t">>,
           <<"i", "m", "m", "e", "d", "i", "a", "t", "e">>,
           <<"h", "e", "l", "p", " ", "n", "o", "w">>,
           <<"c", "r", "i", "t", "i", "c", "a", "l">>,
           <<"a", "s", "a", "p">> }
    [] intent = "equipment" ->
         { <<"e", "q", "u", "i", "p", "m", "e", "n", "t">>,
           <<"l", "a", "p", "t", "o", "p">>,
           <<"p", "h", "o", "n", "e">>,
           <<"d", "e", "s", "k">>,
           <<"c", "h", "a", "i", "r">>,
           <<"m", "o", "n", "i", "t", "o", "r">>,
           <<"h", "a", "r", "d", "w", "a", "r", "e">> }
    [] intent = "training" ->
         { <<"t", "r", "a", "i", "n", "i", "n", "g">>,
           <<"o", "n", "b", "o", "a", "r", "d", "i", "n", "g">>,
           <<"o", "r", "i", "e", "n", "t", "a", "t", "i", "o", "n">>,
           <<"l", "e", "a", "r", "n">>,
           <<"c", "o", "u", "r", "s", "e">>,
           <<"t", "u", "t", "o", "r", "i", "a", "l">> }

\* /\b(alt1|alt2|...)\b/i .test(text)
Test(alternatives, text) ==
  LET lower == ToLowerCase(text)
  IN \E alt \in alternatives : \E i \in 1..Len(text) :
       /\ i + Len(alt) - 1 <= Len(text)
       /\ SubSeq(lower, i, i + Len(alt) - 1) = alt
       /\ WordBoundary(text, i)
       /\ WordBoundary(text, i + Len(alt))

AnalyzeQueryIntent(query) ==
  LET lowerQuery == ToLowerCase(query)
      hits == {k \in 1..Len(Intents) : Test(Alternatives(Intents[k]), lowerQuery)}
  IN IF hits = {} THEN "general"
     ELSE Intents[CHOOSE k \in hits : \A h \in hits : k <= h]

(***************************************************************************)
(* Conversation documents (the Conversation model and its messageSchema).  *)
(***************************************************************************)
\* metadata paths that messageSchema declares; Mongoose (strict mode) drops
\* every other key when the pushed object is cast to a subdocument.
MessageMetadataPaths == {"intent", "length", "userAgent", "sentiment"}

CastMessage_NoTrim(m) ==
  [role |-> m.role,
   content |-> m.content,
   timestamp |-> m.timestamp,
   quickReplies |-> m.quickReplies,
   metadata |-> [k \in (DOMAIN m.metadata) \cap MessageMetadataPaths |-> m.metadata[k]]]

\* Casting an object pushed on conversation.messages to messageSchema:
\* content is trimmed (trim: true), undeclared metadata keys are dropped.
CastMessage(m) ==
  [role |-> m.role,
   content |-> Trim(m.content),
   timestamp |-> m.timestamp,
   quickReplies |-> m.quickReplies,
   metadata |-> [k \in (DOMAIN m.metadata) \cap MessageMetadataPaths |-> m.metadata[k]]]

\* The built-in validators of messageSchema: content is required.
ValidMessageDoc(m) == m.content # <<>>

\* The user message the handler pushes at time now (chat.js 140-149).
UserMessage(text, now) ==
  CastMessage([role |-> "user", content |-> text, timestamp |-> now,
               quickReplies |-> <<>>,
               metadata |-> [length |-> StrLen(text)]])

\* The metadata the handler attaches to the bot message (chat.js 176-181).
BotMetadata(botResponse, knowledgeContext, responseTime) ==
  [knowledgeSources |-> [i \in 1..Len(knowledgeContext) |-> knowledgeContext[i].id],
   responseLength |-> StrLen(botResponse),
   responseTime |-> responseTime]

\* The bot message the handler pushes at time now (chat.js 171-182).
BotMessage(botResponse, knowledgeContext, quickReplies, responseTime, now) ==
  CastMessage([role |-> "bot", content |-> botResponse, timestamp |-> now,
               quickReplies |-> quickReplies,
               metadata |-> BotMetadata(botResponse, knowledgeContext, responseTime)])

(***************************************************************************)
(* Requests.                                                               *)
(***************************************************************************)
SessionIds == {"s1", "s2"}
NoSid == "none"
\* The sessionId of a request body: one of the ids, or missing.
AnySid == SessionIds \cup {NoSid}

MissingMessage == [present |-> FALSE, text |-> <<>>]
Msg(t) == [present |-> TRUE, text |-> t]
\* The message bodies a client submits: none, the empty string, blanks only,
\* 1001 characters, 1000 characters followed by a blank, exactly 1000
\* characters, and a short question with blanks around it.
MessageInputs ==
  { MissingMessage,
    Msg(<<>>),
    Msg(<<Run("sp", 3)>>),
    Msg(<<Run("filler", MaxMessageLength + 1)>>),
    Msg(<<Run("hours", MaxMessageLength), Run("sp", 1)>>),
    Msg(<<Run("vpn", MaxMessageLength)>>),
    Msg(<<Run("sp", 1), Run("hours", 5), Run("sp", 1)>>) }

ValidateMessage_TrimmedLength(message) ==
  IF ~message.present \/ message.text = <<>> \/ StrLen(Trim(message.text)) = 0
  THEN "required"
  ELSE IF StrLen(Trim(message.text)) > MaxMessageLength THEN "tooLong" ELSE "ok"

\* The two validation steps of POST /chat (chat.js 95-108): "required" for
\* !message || message.trim().length === 0, "tooLong" for length > 1000.
ValidateMessage(message) ==
  IF ~message.present \/ message.text = <<>> \/ StrLen(Trim(message.text)) = 0
  THEN "required"
  ELSE IF StrLen(message.text) > MaxMessageLength THEN "tooLong" ELSE "ok"

\* Errors a handler's catch block sees.
DbErrorNames == {"MongoError", "MongoServerError"}
\* The status the catch block of POST /chat answers with (chat.js 214-223).
ChatErrorStatus(err) ==
  IF err.mentionsGemini THEN 503
  ELSE IF err.name = "MongoError" THEN 503 ELSE 500
Err(name) == [name |-> name, mentionsGemini |-> FALSE]
GatewayErr == [name |-> "Error", mentionsGemini |-> TRUE]

NoConv == [id |-> 0, sessionId |-> NoSid, isNew |-> FALSE]
NoResponse ==
  [status |-> 0, error |-> "", reply |-> <<>>, sessionId |-> NoSid,
   conversationId |-> 0, feedbackId |-> 0, messages |-> <<>>, count |-> 0,
   quickReplies |-> <<>>, responseTime |-> 0]
Response(status, error) == [NoResponse EXCEPT !.status = status, !.error = error]

\* Ratings are written in tenths, so that 25 is the rating 2.5.
Rating(t) == [present |-> TRUE, tenths |-> t]
NoRating == [present |-> FALSE, tenths |-> 0]
RatingInputs ==
  {NoRating, Rating(0), Rating(10), Rating(25), Rating(30), Rating(50), Rating(60)}
NoDoc == [id |-> 0, conversationId |-> 0, userId |-> "u1", rating |-> 0,
          isHelpful |-> FALSE, question |-> <<>>, botResponse |-> <<>>,
          responseTime |-> 0, sourceCount |-> 0]

\* A token as a request presents it: none, a string that is not a JWT, or a
\* JWT naming a user, whose signature is or is not the server's and which
\* has or has not expired.
NoToken == [kind |-> "none", sub |-> "nobody", signed |-> FALSE, expired |-> FALSE]
Garbage == [kind |-> "garbage", sub |-> "nobody", signed |-> FALSE, expired |-> FALSE]
Jwt(sub, signed, expired) ==
  [kind |-> "jwt", sub |-> sub, signed |-> signed, expired |-> expired]

\* The entry of loginAttempts for an IP (auth.js 8, 149-154).
NoAttempts == [present |-> FALSE, count |-> 0, firstAttempt |-> 0]
Ips == {"ip1"}

\* The browser: the user logged in, the chat session id the chat page holds (also in
\* localStorage), the token in localStorage, the requests of the axios
\* instance that are in flight or whose interceptor awaits a refresh, the
\* innermost last, the number of refresh requests sent for the request at
\* the bottom, and how that request ended.
IdleClient ==
  [user |-> "u1", sessionId |-> NoSid, token |-> NoToken, calls |-> <<>>, refreshes |-> 0,
   outcome |-> "none"]

\* The question and the response a feedback request can carry; <<>> stands
\* for a missing or empty one.
Supplied(question, response) == [question |-> question, response |-> response]
NoneSupplied == Supplied(<<>>, <<>>)
SuppliedInputs ==
  {Supplied(q, r) : q \in {<<>>, <<Run("asked", 5)>>}, r \in {<<>>, <<Run("told", 4)>>}}

IdleReq ==
  [op |-> "none", pc |-> "idle", user |-> "u1", message |-> MissingMessage,
   sid |-> NoSid, target |-> "none", conv |-> NoConv, before |-> <<>>, pushed |-> <<>>,
   context |-> <<>>, gateway |-> "none", reply |-> <<>>, wrote |-> <<>>,
   cid |-> 0, rating |-> NoRating, isHelpful |-> "absent", supplied |-> NoneSupplied,
   doc |-> NoDoc, ip |-> "ip1", creds |-> "none", token |-> NoToken, issued |-> NoToken,
   role |-> "employee", limit |-> 0,
   startTime |-> 0, responseTime |-> 0, quickReplies |-> <<>>, steps |-> <<>>,
   query |-> <<>>, intent |-> "none",
   failed |-> "none", response |-> NoResponse]

Slots == 1..NumSlots

VARIABLES
  conversations,  \* the Conversation collection: a set of documents
  feedbacks,      \* the Feedback collection: a set of documents
  kb,             \* the KnowledgeBase collection: entry id -> document
  reqs,           \* the requests in flight: slot -> handler state
  nextOid,        \* number of Conversation documents constructed so far
  nchats,         \* number of chat turns that passed validation
  nfeedbacks,     \* number of Feedback documents constructed so far
  clock,          \* the time, in milliseconds, that Date.now() last returned
  loginAttempts,  \* the login attempts the auth router has counted: IP -> entry
  client          \* the state of the browser client

vars == <<conversations, feedbacks, kb, reqs, nextOid, nchats, nfeedbacks, clock,
          loginAttempts, client>>

Init ==
  /\ conversations = {}
  /\ feedbacks = {}
  /\ kb = SeedKnowledge
  /\ reqs = [s \in Slots |-> IdleReq]
  /\ nextOid = 0
  /\ nchats = 0
  /\ nfeedbacks = 0
  /\ clock = 0
  /\ loginAttempts = [ip \in Ips |-> NoAttempts]
  /\ client = IdleClient

FindSession_AnyOwner(convs, sessionId, userId) ==
  {c \in convs : c.sessionId = sessionId}

\* Conversation.findOne({ sessionId, userId })
FindSession(convs, sessionId, userId) ==
  {c \in convs : c.sessionId = sessionId /\ c.userId = userId}

\* Who owns what a client-supplied session id names (for the properties).
TargetOf(convs, sessionId, userId) ==
  IF sessionId = NoSid THEN "none"
  ELSE IF \E c \in convs : c.sessionId = sessionId /\ c.userId = userId THEN "own"
  ELSE IF \E c \in convs : c.sessionId = sessionId THEN "foreign"
  ELSE "missing"

Finish(s, resp) == [reqs EXCEPT ![s].pc = "done", ![s].response = resp]


NoFeedback == [rating |-> 0]

\* new Conversation({...}) as stored by its first save.
NewConversation(conv, userId, messages) ==
  [id |-> conv.id, sessionId |-> conv.sessionId, userId |-> userId,
   userRole |-> RoleOf(userId), messages |-> messages, feedback |-> NoFeedback]

\* A response is delivered (and its slot freed) before any handler runs on.
NoneDone == \A t \in Slots : reqs[t].pc # "done"

\* The handler in slot s is at the await named pc and resumes.
At(s, pc) == reqs[s].pc = pc /\ NoneDone

\* The lowest idle slot takes the next request.
Free(s) ==
  /\ At(s, "idle")
  /\ \A t \in Slots : t < s => reqs[t].pc # "idle"

\* The store operations of the handlers that can reject.
FaultPoints == {"find", "search", "save", "views", "fbSave", "convSave", "delete", "cascade"}
\* Whether the store operation at the fault point succeeds.
Ok(env, point) == IF point \in env.faults THEN BOOLEAN ELSE {TRUE}

\* What the clients and the collaborators of the handlers can do: env.msgs
\* the message bodies sent, env.outcomes the results of the model call,
\* env.faults the store operations that can fail, env.errors the names of
\* the errors they fail with, env.ratings, env.helpful and env.supplied the
\* feedback sent,
\* env.ticks the milliseconds that can pass between two readings of the
\* clock, env.chats the number of chat turns that pass validation, env.users
\* the callers, env.sids the session ids the chat requests carry.
EnvFull ==
  [msgs |-> MessageInputs, outcomes |-> GatewayOutcomes, faults |-> FaultPoints,
   errors |-> DbErrorNames,
   ratings |-> RatingInputs, helpful |-> {"absent", "true", "false"},
   supplied |-> {NoneSupplied},
   ticks |-> {0}, chats |-> MaxChats, users |-> Users, sids |-> AnySid]

\* Date.now() / new Date(): the clock does not run backwards.
Now(env) == {t \in {clock + d : d \in env.ticks} : t = clock \/ t <= MaxClock}

\* The steps of a turn, as the handler takes them.
Did(r, step) == [r EXCEPT !.steps = Append(@, step)]

(***************************************************************************)
(* POST /chat (chat.js 91-231).                                            *)
(***************************************************************************)
\* Lines 93-149: validation, session lookup or construction, push of the
\* user message; the handler then awaits the knowledge search.
ChatStart(s, env) ==
  /\ Free(s)
  /\ \E u \in env.users, m \in env.msgs, sid \in env.sids, dbOk \in Ok(env, "find") :
       LET v == ValidateMessage(m)
           base == [IdleReq EXCEPT !.op = "chat", !.user = u, !.message = m, !.sid = sid,
                                   !.target = TargetOf(conversations, sid, u)]
           found == IF sid = NoSid THEN {} ELSE FindSession(conversations, sid, u)
       IN IF v = "required"
          THEN /\ dbOk
               /\ reqs' = [reqs EXCEPT ![s] =
                     [base EXCEPT !.pc = "done", !.response = Response(400, "Message is required")]]
               /\ UNCHANGED <<nextOid, nchats, clock>>
          ELSE IF v = "tooLong"
          THEN /\ dbOk
               /\ reqs' = [reqs EXCEPT ![s] =
                     [base EXCEPT !.pc = "done", !.response = Response(400, "Message too long")]]
               /\ UNCHANGED <<nextOid, nchats, clock>>
          ELSE /\ nchats < env.chats
               /\ nchats' = nchats + 1
               /\ IF sid # NoSid /\ ~dbOk
                  THEN \* findOne rejects
                       /\ \E name \in env.errors :
                            reqs' = [reqs EXCEPT ![s] =
                              [base EXCEPT !.pc = "done", !.failed = "find",
                                 !.steps = <<"failed">>,
                                 !.response = Response(ChatErrorStatus(Err(name)), "Internal server error")]]
                       /\ UNCHANGED <<nextOid, clock>>
                  ELSE IF found # {}
                  THEN /\ \E c \in found, now \in Now(env) :
                            /\ clock' = now
                            /\ reqs' = [reqs EXCEPT ![s] =
                                 [base EXCEPT !.pc = "search",
                                    !.conv = [id |-> c.id, sessionId |-> c.sessionId, isNew |-> FALSE],
                                    !.before = c.messages,
                                    !.steps = <<"resolved">>,
                                    !.pushed = <<UserMessage(m.text, now)>>]]
                       /\ UNCHANGED nextOid
                  ELSE /\ dbOk
                       /\ nextOid' = nextOid + 1
                       /\ \E g \in SessionIds, now \in Now(env) : \* generateSessionId()
                            /\ clock' = now
                            /\ reqs' = [reqs EXCEPT ![s] =
                                 [base EXCEPT !.pc = "search",
                                    !.conv = [id |-> nextOid + 1, sessionId |-> g, isNew |-> TRUE],
                                    !.steps = <<"resolved">>,
                                    !.pushed = <<UserMessage(m.text, now)>>]]
  /\ UNCHANGED <<conversations, feedbacks, kb, nfeedbacks, loginAttempts, client>>

\* Lines 152-165: the knowledge search resolves; the handler notes the
\* start time and calls generateResponse.
ChatSearch(s, env) ==
  /\ At(s, "search")
  /\ \E searchOk \in Ok(env, "search"), now \in Now(env) :
       \E ctx \in SearchKnowledgeBase(kb, reqs[s].message.text, RoleOf(reqs[s].user), searchOk) :
         /\ clock' = now
         /\ reqs' = [reqs EXCEPT ![s] =
              Did(Did([@ EXCEPT !.pc = "generate", !.context = ctx, !.startTime = now],
                      "retrieved"), "invoked")]
  /\ UNCHANGED <<conversations, feedbacks, kb, nextOid, nchats, nfeedbacks, loginAttempts, client>>

GatewayLabel(o) == IF o.kind = "text" THEN "text" ELSE o.cause

ChatSuccess(r) ==
  [NoResponse EXCEPT !.status = 200, !.reply = r.reply, !.sessionId = r.conv.sessionId,
                     !.conversationId = r.conv.id, !.count = Len(r.context),
                     !.quickReplies = r.quickReplies, !.responseTime = r.responseTime]

\* The reply, the latency and the quick replies of the turn, as the handler
\* holds them once generateResponse has resolved to botResponse at time now.
WithReply(r, botResponse, now) ==
  [r EXCEPT !.reply = botResponse, !.responseTime = now - r.startTime,
            !.quickReplies = GenerateQuickReplies(r.message.text, r.context, RoleOf(r.user))]

Generated_RespondFirst(r, botResponse, now) ==
  LET g == WithReply(r, botResponse, now)
  IN Did(Did([g EXCEPT !.pc = "done", !.response = ChatSuccess(g)], "returned"), "responded")

\* Lines 165-185: the handler pushes the bot message and calls
\* conversation.save().
Generated(r, botResponse, now) ==
  LET g == WithReply(r, botResponse, now)
  IN Did(Did([g EXCEPT !.pc = "save",
                !.pushed = @ \o <<BotMessage(botResponse, g.context, g.quickReplies,
                                             g.responseTime, now)>>],
             "returned"), "saving")

\* Lines 158-185: generateResponse settles.
ChatGenerate(s, env) ==
  /\ At(s, "generate")
  /\ \E o \in env.outcomes, now \in Now(env) :
       LET r == GenerateResponse(o, reqs[s].message.text)
           called == [reqs[s] EXCEPT !.gateway = GatewayLabel(o)]
       IN /\ clock' = now
          /\ IF r.rejected
             THEN reqs' = [reqs EXCEPT ![s] =
                      Did([called EXCEPT !.pc = "done", !.failed = "gateway",
                             !.response = Response(ChatErrorStatus(GatewayErr), "Internal server error")],
                          "failed")]
             ELSE reqs' = [reqs EXCEPT ![s] = Generated(called, r.text, now)]
  /\ UNCHANGED <<conversations, feedbacks, kb, nextOid, nchats, nfeedbacks, loginAttempts, client>>

AppendTo_Overwrite(c, pushed) == [c EXCEPT !.messages = pushed]

\* The messages a save of the document in hand writes: a new document is
\* inserted whole, a loaded one is updated with $push of what was pushed.
AppendTo(c, pushed) == [c EXCEPT !.messages = @ \o pushed]

SaveFails(s, why, status) ==
  reqs' = [reqs EXCEPT ![s] =
             Did([@ EXCEPT !.pc = "done", !.failed = why,
                           !.response = Response(status, "Internal server error")],
                 "failed")]

\* Line 185: conversation.save() settles.
ChatSave(s, env) ==
  /\ At(s, "save")
  /\ LET r == reqs[s]
     IN IF \E i \in 1..Len(r.pushed) : ~ValidMessageDoc(r.pushed[i])
        THEN \* ValidationError: content is required
             /\ SaveFails(s, "validation", ChatErrorStatus(Err("ValidationError")))
             /\ UNCHANGED conversations
        ELSE \E dbOk \in Ok(env, "save") :
          IF ~dbOk
          THEN /\ \E name \in env.errors : SaveFails(s, "save", ChatErrorStatus(Err(name)))
               /\ UNCHANGED conversations
          ELSE IF r.conv.isNew
          THEN IF \E c \in conversations : c.sessionId = r.conv.sessionId
               THEN \* the unique index on sessionId rejects the insert
                    /\ \E name \in env.errors : SaveFails(s, "duplicate", ChatErrorStatus(Err(name)))
                    /\ UNCHANGED conversations
               ELSE /\ conversations' = conversations \cup {NewConversation(r.conv, r.user, r.pushed)}
                    /\ reqs' = [reqs EXCEPT ![s] =
                                  Did([@ EXCEPT !.pc = "views", !.wrote = r.pushed], "saved")]
          ELSE IF \E c \in conversations : c.id = r.conv.id
               THEN /\ conversations' =
                         {IF c.id = r.conv.id THEN AppendTo(c, r.pushed) ELSE c : c \in conversations}
                    /\ reqs' = [reqs EXCEPT ![s] =
                                  Did([@ EXCEPT !.pc = "views", !.wrote = r.pushed], "saved")]
               ELSE \* the document was deleted meanwhile: DocumentNotFoundError
                    /\ SaveFails(s, "gone", ChatErrorStatus(Err("DocumentNotFoundError")))
                    /\ UNCHANGED conversations
  /\ UNCHANGED <<feedbacks, kb, nextOid, nchats, nfeedbacks, clock, loginAttempts, client>>

ContextIds(ctx) == {ctx[i].id : i \in 1..Len(ctx)}

IncrementViews_Set(kbs, ids) ==
  [e \in DOMAIN kbs |-> IF e \in ids THEN [kbs[e] EXCEPT !.viewCount = 1] ELSE kbs[e]]

\* findByIdAndUpdate(id, { $inc: { viewCount: 1 } }) for the entries that
\* are updated.
IncrementViews(kbs, ids) ==
  [e \in DOMAIN kbs |-> IF e \in ids THEN [kbs[e] EXCEPT !.viewCount = @ + 1] ELSE kbs[e]]

\* What the handler does once every view-count update has settled, failing
\* being the set of updates that rejected (chat.js 194-229).
AfterViewUpdates(r, failing, name) ==
  IF failing = {}
  THEN Did([r EXCEPT !.pc = "done", !.response = ChatSuccess(r)], "responded")
  ELSE Did([r EXCEPT !.pc = "done", !.failed = "views",
                     !.response = Response(ChatErrorStatus(Err(name)), "Internal server error")],
           "failed")

\* Lines 188-208: the view-count updates settle and the response is sent.
ChatViews(s, env) ==
  /\ At(s, "views")
  /\ \E failing \in SUBSET ContextIds(reqs[s].context), name \in env.errors :
       /\ failing = {} => name = CHOOSE n \in env.errors : TRUE
       /\ failing # {} => "views" \in env.faults
       /\ kb' = IncrementViews(kb, ContextIds(reqs[s].context) \ failing)
       /\ reqs' = [reqs EXCEPT ![s] = AfterViewUpdates(reqs[s], failing, name)]
  /\ UNCHANGED <<conversations, feedbacks, nextOid, nchats, nfeedbacks, clock, loginAttempts, client>>

\* The client has received the response; the slot is free again.
Retire(s) ==
  /\ reqs[s].pc = "done"
  /\ reqs' = [reqs EXCEPT ![s] = IdleReq]
  /\ UNCHANGED <<conversations, feedbacks, kb, nextOid, nchats, nfeedbacks, clock, loginAttempts, client>>


(***************************************************************************)
(* GET /chat/history and GET /chat/history/:sessionId (chat.js 234-303).   *)
(***************************************************************************)
HistoryLimit == 20

\* Conversation.find(query) with query = { userId } or { userId, sessionId }.
HistoryQuery(convs, userId, sessionId) ==
  {c \in convs : c.userId = userId /\ (sessionId # NoSid => c.sessionId = sessionId)}

HistoryResponse(convs, userId, sessionId) ==
  LET found == HistoryQuery(convs, userId, sessionId)
  IN IF found = {}
     THEN {Response(404, "No conversations found")}
     ELSE IF sessionId # NoSid
     THEN {[NoResponse EXCEPT !.status = 200, !.sessionId = c.sessionId,
                              !.messages = c.messages] : c \in found}
     ELSE {[NoResponse EXCEPT !.status = 200,
                              !.count = Min(HistoryLimit, Cardinality(found))]}

GetHistory(s, env) ==
  /\ Free(s)
  /\ \E u \in env.users, sid \in SessionIds \cup {NoSid} :
       \E resp \in HistoryResponse(conversations, u, sid) :
         reqs' = [reqs EXCEPT ![s] =
           [IdleReq EXCEPT !.op = "history", !.pc = "done", !.user = u, !.sid = sid,
                           !.target = TargetOf(conversations, sid, u), !.response = resp]]
  /\ UNCHANGED <<conversations, feedbacks, kb, nextOid, nchats, nfeedbacks, clock, loginAttempts, client>>

(***************************************************************************)
(* GET /chat/export/:sessionId (chat.js 490-541).                          *)
(***************************************************************************)
ExportView(messages) ==
  [i \in 1..Len(messages) |-> [role |-> messages[i].role, content |-> messages[i].content]]

ExportResponse(convs, userId, sessionId) ==
  LET found == FindSession(convs, sessionId, userId)
  IN IF found = {}
     THEN {Response(404, "Conversation not found or access denied")}
     ELSE {[NoResponse EXCEPT !.status = 200, !.sessionId = sessionId,
                              !.messages = ExportView(c.messages),
                              !.count = Len(c.messages)] : c \in found}

ExportConversation(s, env) ==
  /\ Free(s)
  /\ \E u \in env.users, sid \in SessionIds :
       \E resp \in ExportResponse(conversations, u, sid) :
         reqs' = [reqs EXCEPT ![s] =
           [IdleReq EXCEPT !.op = "export", !.pc = "done", !.user = u, !.sid = sid,
                           !.target = TargetOf(conversations, sid, u), !.response = resp]]
  /\ UNCHANGED <<conversations, feedbacks, kb, nextOid, nchats, nfeedbacks, clock, loginAttempts, client>>

(***************************************************************************)
(* POST /chat/feedback (chat.js 306-389).                                  *)
(***************************************************************************)
\* Lines 311-324: "required" for !conversationId || !rating, "range" for
\* rating < 1 || rating > 5.
ValidateFeedback(cid, rating) ==
  IF cid = 0 \/ ~rating.present \/ rating.tenths = 0 THEN "required"
  ELSE IF rating.tenths < 10 \/ rating.tenths > 50 THEN "range" ELSE "ok"

\* parseInt(rating)
ParseInt(rating) == rating.tenths \div 10

\* isHelpful || (rating >= 4)
IsHelpful(isHelpful, rating) == isHelpful = "true" \/ rating.tenths >= 40

FindConversation_AnyOwner(convs, cid, userId) ==
  {c \in convs : c.id = cid}

\* Conversation.findOne({ _id: conversationId, userId })
FindConversation(convs, cid, userId) ==
  {c \in convs : c.id = cid /\ c.userId = userId}

ConvTargetOf(convs, cid, userId) ==
  IF cid = 0 THEN "none"
  ELSE IF \E c \in convs : c.id = cid /\ c.userId = userId THEN "own"
  ELSE IF \E c \in convs : c.id = cid THEN "foreign"
  ELSE "missing"

\* The content of the last message with the given role, or ''.
LastContent(messages, role) ==
  LET idx == {i \in 1..Len(messages) : messages[i].role = role}
  IN IF idx = {} THEN <<>>
     ELSE messages[CHOOSE i \in idx : \A j \in idx : j <= i].content

\* messages[messages.length - 1]?.metadata?.responseTime || 0
LastResponseTime(messages) ==
  IF messages = <<>> THEN 0
  ELSE LET metadata == messages[Len(messages)].metadata
       IN IF "responseTime" \in DOMAIN metadata THEN metadata.responseTime ELSE 0

\* messages[messages.length - 1]?.metadata?.knowledgeSources?.length || 0
LastSourceCount(messages) ==
  IF messages = <<>> THEN 0
  ELSE LET metadata == messages[Len(messages)].metadata
       IN IF "knowledgeSources" \in DOMAIN metadata THEN Len(metadata.knowledgeSources) ELSE 0

\* given || fallback, for strings: the empty string is falsy.
OrElse(given, fallback) == IF given # <<>> THEN given ELSE fallback

\* new Feedback({...}) (lines 338-362); question and botResponse are trimmed
\* by the schema.
NewFeedback(fid, c, userId, rating, isHelpful, supplied) ==
  [id |-> fid, conversationId |-> c.id, userId |-> userId,
   rating |-> ParseInt(rating), isHelpful |-> IsHelpful(isHelpful, rating),
   question |-> Trim(OrElse(supplied.question, LastContent(c.messages, "user"))),
   botResponse |-> Trim(OrElse(supplied.response, LastContent(c.messages, "bot"))),
   responseTime |-> LastResponseTime(c.messages),
   sourceCount |-> LastSourceCount(c.messages)]

\* The validators of feedbackSchema.
ValidFeedbackDoc(d) ==
  /\ d.question # <<>>
  /\ d.botResponse # <<>>
  /\ d.rating >= 1 /\ d.rating <= 5

\* Lines 308-362: validation, lookup of the conversation, construction of
\* the feedback document; the handler then awaits feedback.save().
SubmitFeedback(s, env) ==
  /\ Free(s)
  /\ \E u \in env.users, cid \in 0..MaxChats, rating \in env.ratings, h \in env.helpful,
        sup \in env.supplied :
       LET v == ValidateFeedback(cid, rating)
           base == [IdleReq EXCEPT !.op = "feedback", !.user = u, !.cid = cid,
                                   !.rating = rating, !.isHelpful = h, !.supplied = sup,
                                   !.target = ConvTargetOf(conversations, cid, u)]
           found == FindConversation(conversations, cid, u)
       IN IF v = "required"
          THEN /\ reqs' = [reqs EXCEPT ![s] = [base EXCEPT !.pc = "done",
                     !.response = Response(400, "Conversation ID and rating are required")]]
               /\ UNCHANGED nfeedbacks
          ELSE IF v = "range"
          THEN /\ reqs' = [reqs EXCEPT ![s] = [base EXCEPT !.pc = "done",
                     !.response = Response(400, "Rating must be between 1 and 5")]]
               /\ UNCHANGED nfeedbacks
          ELSE IF found = {}
          THEN /\ reqs' = [reqs EXCEPT ![s] = [base EXCEPT !.pc = "done",
                     !.response = Response(404, "Conversation not found or access denied")]]
               /\ UNCHANGED nfeedbacks
          ELSE /\ nfeedbacks < MaxFeedbacks
               /\ nfeedbacks' = nfeedbacks + 1
               /\ \E c \in found :
                    reqs' = [reqs EXCEPT ![s] = [base EXCEPT !.pc = "fbSave",
                      !.conv = [id |-> c.id, sessionId |-> c.sessionId, isNew |-> FALSE],
                      !.doc = NewFeedback(nfeedbacks + 1, c, u, rating, h, sup)]]
  /\ UNCHANGED <<conversations, feedbacks, kb, nextOid, nchats, clock, loginAttempts, client>>

FeedbackFails(s, why) ==
  reqs' = [reqs EXCEPT ![s].pc = "done", ![s].failed = why,
             ![s].response = Response(500, "Failed to submit feedback")]

\* Line 364: feedback.save() settles; lines 367-373 stamp the conversation
\* and start conversation.save().
FeedbackSave(s, env) ==
  /\ At(s, "fbSave")
  /\ IF ~ValidFeedbackDoc(reqs[s].doc)
     THEN FeedbackFails(s, "validation") /\ UNCHANGED feedbacks
     ELSE \E dbOk \in Ok(env, "fbSave") :
            IF dbOk
            THEN /\ feedbacks' = feedbacks \cup {reqs[s].doc}
                 /\ reqs' = [reqs EXCEPT ![s].pc = "fbConv"]
            ELSE FeedbackFails(s, "save") /\ UNCHANGED feedbacks
  /\ UNCHANGED <<conversations, kb, nextOid, nchats, nfeedbacks, clock, loginAttempts, client>>

\* conversation.feedback = {...}; conversation.save() writes $set feedback.
StampFeedback(c, rating) == [c EXCEPT !.feedback = [rating |-> rating]]

\* Line 373: conversation.save() settles and the response is sent.
FeedbackConvSave(s, env) ==
  /\ At(s, "fbConv")
  /\ \E dbOk \in Ok(env, "convSave") :
       IF ~dbOk
       THEN FeedbackFails(s, "convSave") /\ UNCHANGED conversations
       ELSE IF \E c \in conversations : c.id = reqs[s].conv.id
       THEN /\ conversations' =
                 {IF c.id = reqs[s].conv.id THEN StampFeedback(c, reqs[s].doc.rating) ELSE c
                    : c \in conversations}
            /\ reqs' = [reqs EXCEPT ![s].pc = "done",
                 ![s].response = [NoResponse EXCEPT !.status = 200,
                                                    !.feedbackId = reqs[s].doc.id]]
       ELSE FeedbackFails(s, "gone") /\ UNCHANGED conversations
  /\ UNCHANGED <<feedbacks, kb, nextOid, nchats, nfeedbacks, clock, loginAttempts, client>>

(***************************************************************************)
(* DELETE /chat/:sessionId (chat.js 455-487).                              *)
(***************************************************************************)
\* Lines 457-470: Conversation.findOneAndDelete({ sessionId, userId }).
DeleteSession(s, env) ==
  /\ Free(s)
  /\ \E u \in env.users, sid \in SessionIds :
       LET base == [IdleReq EXCEPT !.op = "delete", !.user = u, !.sid = sid,
                                   !.target = TargetOf(conversations, sid, u)]
           found == FindSession(conversations, sid, u)
       IN IF found = {}
          THEN /\ reqs' = [reqs EXCEPT ![s] = [base EXCEPT !.pc = "done",
                     !.response = Response(404, "Conversation not found or access denied")]]
               /\ UNCHANGED conversations
          ELSE \E c \in found :
               /\ conversations' = conversations \ {c}
               /\ reqs' = [reqs EXCEPT ![s] = [base EXCEPT !.pc = "cascade",
                     !.conv = [id |-> c.id, sessionId |-> c.sessionId, isNew |-> FALSE]]]
  /\ UNCHANGED <<feedbacks, kb, nextOid, nchats, nfeedbacks, clock, loginAttempts, client>>

DeleteManyByConversation_None(fbs, cid) == fbs

\* What Feedback.deleteMany({ conversationId }) leaves.
DeleteManyByConversation(fbs, cid) == {f \in fbs : f.conversationId # cid}

\* Line 473: Feedback.deleteMany({ conversationId: result._id }) settles.
DeleteCascade(s, env) ==
  /\ At(s, "cascade")
  /\ \E dbOk \in Ok(env, "cascade") :
       IF dbOk
       THEN /\ feedbacks' = DeleteManyByConversation(feedbacks, reqs[s].conv.id)
            /\ reqs' = Finish(s, Response(200, ""))
       ELSE /\ UNCHANGED feedbacks
            /\ reqs' = [reqs EXCEPT ![s].pc = "done", ![s].failed = "cascade",
                          ![s].response = Response(500, "Internal server error")]
  /\ UNCHANGED <<conversations, kb, nextOid, nchats, nfeedbacks, clock, loginAttempts, client>>

(***************************************************************************)
(* DELETE /chat (chat.js 544-566).                                         *)
(***************************************************************************)
OwnedBy_Anyone(docs, userId) == docs

\* The documents that the filter { userId } selects.
OwnedBy(docs, userId) == {d \in docs : d.userId = userId}

\* Line 548: Conversation.deleteMany({ userId }).
DeleteAll(s, env) ==
  /\ Free(s)
  /\ \E u \in env.users, dbOk \in Ok(env, "delete") :
       LET base == [IdleReq EXCEPT !.op = "deleteAll", !.user = u]
           mine == OwnedBy(conversations, u)
       IN IF dbOk
          THEN /\ conversations' = conversations \ mine
               /\ reqs' = [reqs EXCEPT ![s] = [base EXCEPT !.pc = "cascadeAll",
                     !.response = [NoResponse EXCEPT !.count = Cardinality(mine)]]]
          ELSE /\ UNCHANGED conversations
               /\ reqs' = [reqs EXCEPT ![s] = [base EXCEPT !.pc = "done", !.failed = "delete",
                     !.response = Response(500, "Internal server error")]]
  /\ UNCHANGED <<feedbacks, kb, nextOid, nchats, nfeedbacks, clock, loginAttempts, client>>

\* Line 551: Feedback.deleteMany({ userId }) settles.
DeleteAllCascade(s, env) ==
  /\ At(s, "cascadeAll")
  /\ \E dbOk \in Ok(env, "cascade") :
       IF dbOk
       THEN /\ feedbacks' = feedbacks \ OwnedBy(feedbacks, reqs[s].user)
            /\ reqs' = [reqs EXCEPT ![s].pc = "done", ![s].response.status = 200]
       ELSE /\ UNCHANGED feedbacks
            /\ reqs' = [reqs EXCEPT ![s].pc = "done", ![s].failed = "cascade",
                          ![s].response = Response(500, "Internal server error")]
  /\ UNCHANGED <<conversations, kb, nextOid, nchats, nfeedbacks, clock, loginAttempts, client>>

(***************************************************************************)
(* Specifications.                                                         *)
(***************************************************************************)
ChatStep(s, env) ==
  \/ ChatStart(s, env)
  \/ ChatSearch(s, env)
  \/ ChatGenerate(s, env)
  \/ ChatSave(s, env)
  \/ ChatViews(s, env)

SecondaryStep(s, env) ==
  \/ GetHistory(s, env)
  \/ ExportConversation(s, env)
  \/ SubmitFeedback(s, env)
  \/ FeedbackSave(s, env)
  \/ FeedbackConvSave(s, env)
  \/ DeleteSession(s, env)
  \/ DeleteCascade(s, env)
  \/ DeleteAll(s, env)
  \/ DeleteAllCascade(s, env)

\* Chat turns one at a time, with every message body, every result of the
\* model call and every store fault.
NextTurn == ChatStep(1, EnvFull) \/ Retire(1)
SpecTurn == Init /\ [][NextTurn]_vars

\* Requests of every kind, NumSlots of them in flight at a time.
EnvSmall ==
  [msgs |-> {MissingMessage, Msg(<<Run("sp", 1), Run("hours", 5), Run("sp", 1)>>)},
   outcomes |-> {[kind |-> "text", raw |-> <<Run("answer", 20)>>, cause |-> "none"],
                 [kind |-> "throw", raw |-> <<>>, cause |-> "quota"]},
   faults |-> {"save", "convSave", "cascade"}, errors |-> {"MongoServerError"},
   ratings |-> {Rating(30)}, helpful |-> {"absent"}, supplied |-> {NoneSupplied},
   ticks |-> {0}, chats |-> MaxChats, users |-> Users, sids |-> AnySid]
Next == \E s \in Slots : ChatStep(s, EnvSmall) \/ SecondaryStep(s, EnvSmall) \/ Retire(s)
Spec == Init /\ [][Next]_vars

\* Chat turns only, NumSlots of them in flight at a time, while the clock
\* runs.
EnvRace ==
  [msgs |-> {Msg(<<Run("sp", 1), Run("hours", 5), Run("sp", 1)>>)},
   outcomes |-> {[kind |-> "text", raw |-> <<Run("answer", 20)>>, cause |-> "none"]},
   faults |-> {}, errors |-> {"MongoServerError"},
   ratings |-> {}, helpful |-> {}, supplied |-> {},
   ticks |-> {0, 1}, chats |-> MaxRaceChats, users |-> {"u1"}, sids |-> AnySid]
\* Requests of every kind one at a time, with every rating and isHelpful
\* value, while the clock runs.
EnvRate ==
  [msgs |-> {Msg(<<Run("sp", 1), Run("hours", 5), Run("sp", 1)>>)},
   outcomes |-> {[kind |-> "text", raw |-> <<Run("answer", 20)>>, cause |-> "none"]},
   faults |-> {"fbSave", "convSave", "delete", "cascade"}, errors |-> {"MongoServerError"},
   ratings |-> RatingInputs, helpful |-> {"absent", "true", "false"},
   supplied |-> {NoneSupplied},
   ticks |-> {0, 1}, chats |-> MaxChats, users |-> Users, sids |-> AnySid]
NextRate == ChatStep(1, EnvRate) \/ SecondaryStep(1, EnvRate) \/ Retire(1)
SpecRate == Init /\ [][NextRate]_vars

NextRace == \E s \in Slots : ChatStep(s, EnvRace) \/ Retire(s)
SpecRace == Init /\ [][NextRace]_vars

(***************************************************************************)
(* searchByRole on its own: any knowledge base the admin routes can leave  *)
(* behind (PUT /documents/:id sets isActive and accessRoles freely), any   *)
(* query, role and limit.                                                  *)
(***************************************************************************)
\* Largest limit a search is called with.
MaxLimit == 3

AccessRoleSets == {{}, {"employee"}, {"admin"}, {"admin", "hr"}}
Queries ==
  { <<Run("hours", 5)>>, <<Run("vpn", 3)>>,
    <<Run("hours", 5), Run("sp", 1), Run("vpn", 3)>>, <<Run("lunch", 5)>> }

KnowledgeBases ==
  {[e \in KbIds |-> [SeedKnowledge[e] EXCEPT !.accessRoles = ar[e], !.isActive = ac[e]]] :
     ar \in [KbIds -> AccessRoleSets], ac \in [KbIds -> BOOLEAN]}

InitSearch ==
  /\ kb \in KnowledgeBases
  /\ conversations = {}
  /\ feedbacks = {}
  /\ reqs = [s \in Slots |-> IdleReq]
  /\ nextOid = 0
  /\ nchats = 0
  /\ nfeedbacks = 0
  /\ clock = 0
  /\ loginAttempts = [ip \in Ips |-> NoAttempts]
  /\ client = IdleClient

\* A call KnowledgeBase.searchByRole(query, role, limit) and its result.
Search(s) ==
  /\ Free(s)
  /\ \E q \in Queries, role \in Roles, limit \in 1..MaxLimit :
       \E r \in SearchByRole(kb, q, role, limit) :
         reqs' = [reqs EXCEPT ![s] =
           [IdleReq EXCEPT !.op = "search", !.pc = "done", !.message = Msg(q),
                           !.role = role, !.limit = limit, !.context = ContextOf(kb, r)]]
  /\ UNCHANGED <<conversations, feedbacks, kb, nextOid, nchats, nfeedbacks, clock, loginAttempts, client>>

NextSearch == Search(1) \/ Retire(1)
SpecSearch == InitSearch /\ [][NextSearch]_vars

(***************************************************************************)
(* The two pure functions of the analyzer on their own.                    *)
(***************************************************************************)
\* Largest number of knowledge results that quick replies are derived from.
MaxResults == 3

HelloThere == <<"H", "e", "l", "l", "o", " ", "t", "h", "e", "r", "e", "!">>
RequestVacation == <<"H", "o", "w", " ", "d", "o", " ", "I", " ", "r", "e", "q", "u", "e", "s", "t", " ", "v", "a", "c", "a", "t", "i", "o", "n", "?">>
LaptopWontTurnOn == <<"M", "y", " ", "l", "a", "p", "t", "o", "p", " ", "w", "o", "n", "'", "t", " ", "t", "u", "r", "n", " ", "o", "n">>
RandomText == <<"a", "s", "d", "l", "k", "j", " ", "r", "a", "n", "d", "o", "m", " ", "t", "e", "x", "t">>
IntentInputs ==
  { HelloThere, RequestVacation, LaptopWontTurnOn, RandomText,
    <<"T", "H", "A", "N", "K", "S", " ", "f", "o", "r", " ", "t", "h", "e", " ", "p", "o", "l", "i", "c", "y">>,
    <<"t", "h", "i", "s", " ", "w", "h", "i", "t", "e", " ", "w", "a", "l", "l">>,
    <<"u", "r", "g", "e", "n", "t", ":", " ", "h", "a", "r", "d", "w", "a", "r", "e", " ", "p", "r", "o", "b", "l", "e", "m">>,
    <<"G", "o", "o", "d", " ", "M", "o", "r", "n", "i", "n", "g">>,
    <<"t", "r", "a", "i", "n", "i", "n", "g", " ", "c", "o", "u", "r", "s", "e">>,
    <<"m", "y", " ", "d", "e", "s", "k", " ", "p", "h", "o", "n", "e">>,
    <<"h", "e", "a", "l", "t", "h", " ", "i", "n", "s", "u", "r", "a", "n", "c", "e">>,
    <<"i", "s", " ", "i", "t", " ", "u", "r", "g", "e", "n", "t">>,
    <<"h", "e", "l", "p", " ", "n", "o", "w", " ", "p", "l", "e", "a", "s", "e">>,
    <<"h", "i", "-", "t", "e", "c", "h">>,
    <<"W", "h", "o", " ", "h", "a", "n", "d", "l", "e", "s", " ", "p", "a", "y", "r", "o", "l", "l", " ", "a", "n", "d", " ", "e", "m", "a", "i", "l", "?">> }

ResultIds == <<"k1", "k2", "k3", "k4">>
\* The knowledge results with the given categories, in their order.
ResultsOf(cats) == [i \in 1..Len(cats) |-> [id |-> ResultIds[i], category |-> cats[i]]]

\* A call generateQuickReplies(userQuery, knowledgeResults, userRole).
Derive(s) ==
  /\ Free(s)
  /\ \E n \in 0..MaxResults, q \in Queries, role \in Roles :
       \E cats \in [1..n -> Categories] :
         reqs' = [reqs EXCEPT ![s] =
           [IdleReq EXCEPT !.op = "replies", !.pc = "done", !.message = Msg(q), !.role = role,
                           !.context = ResultsOf(cats),
                           !.quickReplies = GenerateQuickReplies(q, ResultsOf(cats), role)]]
  /\ UNCHANGED <<conversations, feedbacks, kb, nextOid, nchats, nfeedbacks, clock, loginAttempts, client>>

\* A call analyzeQueryIntent(query).
Classify(s) ==
  /\ Free(s)
  /\ \E q \in IntentInputs :
       reqs' = [reqs EXCEPT ![s] =
         [IdleReq EXCEPT !.op = "intent", !.pc = "done", !.query = q,
                         !.intent = AnalyzeQueryIntent(q)]]
  /\ UNCHANGED <<conversations, feedbacks, kb, nextOid, nchats, nfeedbacks, clock, loginAttempts, client>>

NextAnalyzer == Derive(1) \/ Classify(1) \/ Retire(1)
SpecAnalyzer == Init /\ [][NextAnalyzer]_vars

(***************************************************************************)
(* Properties.                                                             *)
(***************************************************************************)
Searches == {s \in Slots : reqs[s].op = "search" /\ reqs[s].pc = "done"}
Matches(entry, query) ==
  \E w \in Words(query) : w \in entry.title \/ w \in entry.content

\* C4: searchByRole(query, role, limit) returns at most limit entries, each
\* active and with accessRoles empty or containing role; an entry with
\* accessRoles = {admin} is never returned to role employee, and is returned
\* to role admin when it is active, matches the query and the matching
\* entries the admin may see fit in the limit.
C4_RoleGatedSearch ==
  \A s \in Searches :
    LET r == reqs[s]
        got == ContextIds(r.context)
        adminVisible == {e \in KbIds : kb[e].isActive /\ Matches(kb[e], r.message.text)
                                          /\ (kb[e].accessRoles = {} \/ "admin" \in kb[e].accessRoles)}
    IN /\ Len(r.context) <= r.limit
       /\ Cardinality(got) = Len(r.context)
       /\ \A e \in got : kb[e].isActive
       /\ \A e \in got : kb[e].accessRoles = {} \/ r.role \in kb[e].accessRoles
       /\ \A e \in KbIds : kb[e].accessRoles = {"admin"} /\ r.role = "employee" => e \notin got
       /\ \A e \in KbIds :
            (/\ kb[e].accessRoles = {"admin"} /\ r.role = "admin" /\ kb[e].isActive
             /\ Matches(kb[e], r.message.text)
             /\ Cardinality(adminVisible) <= r.limit) => e \in got

\* A search by an admin returns an active admin-only entry, while the limit
\* cuts another eligible entry off.
C4_Witness ==
  \E s \in Searches :
    /\ reqs[s].role = "admin"
    /\ \E e \in ContextIds(reqs[s].context) : kb[e].accessRoles = {"admin"}
    /\ Len(reqs[s].context) = reqs[s].limit
    /\ \E e \in KbIds : /\ e \notin ContextIds(reqs[s].context)
                        /\ kb[e].isActive /\ "admin" \in kb[e].accessRoles
                        /\ Matches(kb[e], reqs[s].message.text)
    /\ \E e \in KbIds : ~kb[e].isActive /\ Matches(kb[e], reqs[s].message.text)

(***************************************************************************)
(* Chat turns.                                                             *)
(***************************************************************************)
Turns == {s \in Slots : reqs[s].op = "chat" /\ reqs[s].pc = "done"}
Succeeded(s) == reqs[s].response.status = 200
Blank(text) == \A i \in 1..Len(text) : text[i].ch = "sp"
\* The text without its leading and trailing whitespace characters.
Stripped(text) ==
  LET keep == {i \in 1..Len(text) : text[i].ch # "sp"}
  IN IF keep = {} THEN <<>>
     ELSE SubSeq(text, CHOOSE i \in keep : \A j \in keep : i <= j,
                       CHOOSE i \in keep : \A j \in keep : j <= i)
\* The session of the turn in slot s holds what it held when the turn read
\* it, followed by exactly a user message with the content user and a bot
\* message with the content bot.
AppendedPair(s, user, bot) ==
  \E c \in conversations :
    /\ c.id = reqs[s].conv.id
    /\ c.sessionId = reqs[s].response.sessionId
    /\ Len(c.messages) = Len(reqs[s].before) + 2
    /\ SubSeq(c.messages, 1, Len(reqs[s].before)) = reqs[s].before
    /\ c.messages[Len(c.messages) - 1].role = "user"
    /\ c.messages[Len(c.messages) - 1].content = user
    /\ c.messages[Len(c.messages)].role = "bot"
    /\ c.messages[Len(c.messages)].content = bot

\* C1 as stated: a successful turn has appended to its session a user
\* message whose content is the submitted message, then a bot message whose
\* content is the returned reply.
C1_Original ==
  \A s \in Turns : Succeeded(s) =>
    AppendedPair(s, reqs[s].message.text, reqs[s].response.reply)

\* C1 as amended: a successful turn has appended to its session exactly a
\* user message whose content is the submitted message without its leading
\* and trailing whitespace, then a bot message whose content is the returned
\* reply; also when the reply is a fallback text of the gateway.
C1_TwoMessagesPerTurn ==
  \A s \in Turns : Succeeded(s) =>
    AppendedPair(s, Stripped(reqs[s].message.text), reqs[s].response.reply)

\* A successful turn on an existing session whose message had blanks around
\* it and whose model call failed.
C1_Witness ==
  \E s \in Turns :
    /\ Succeeded(s)
    /\ reqs[s].before # <<>>
    /\ reqs[s].gateway \in ThrowKinds
    /\ Stripped(reqs[s].message.text) # reqs[s].message.text

StoreVars == <<conversations, feedbacks, kb, nextOid, nchats, nfeedbacks, clock>>
\* The message is missing, empty, made of whitespace only, or longer than
\* 1000 characters.
Rejectable(message) ==
  \/ ~message.present
  \/ Blank(message.text)
  \/ StrLen(message.text) > 1000

\* C5: a chat request whose message is missing, empty, whitespace-only or
\* longer than 1000 characters is answered 400 without a session being
\* created, changed or saved, without a knowledge search, a gateway call or
\* a view-count change; any other message, one of exactly 1000 characters
\* included, is not answered 400.
C5_ValidationRejects ==
  /\ [](\A s \in Turns :
          IF Rejectable(reqs[s].message)
          THEN /\ reqs[s].response.status = 400
               /\ reqs[s].conv = NoConv /\ reqs[s].pushed = <<>> /\ reqs[s].wrote = <<>>
               /\ reqs[s].context = <<>> /\ reqs[s].gateway = "none"
          ELSE reqs[s].response.status # 400)
  /\ [][\A s \in Slots :
          (reqs'[s] # reqs[s] /\ reqs'[s].op = "chat" /\ Rejectable(reqs'[s].message))
             => (reqs[s].pc = "idle" /\ reqs'[s].pc = "done" /\ StoreVars' = StoreVars)]_vars

\* A message of 1000 characters followed by a blank has been rejected and
\* a message of exactly 1000 characters has made a successful turn.
C5_Witness ==
  /\ \E s \in Turns : /\ reqs[s].response.status = 400
                      /\ StrLen(reqs[s].message.text) = 1001
                      /\ StrLen(Stripped(reqs[s].message.text)) = 1000
  /\ \E c \in conversations : \E i \in 1..Len(c.messages) :
       c.messages[i].role = "user" /\ StrLen(c.messages[i].content) = 1000

\* The model call of the turn failed: it threw, or its output was empty
\* once cleaned.
GatewayFailed(s) ==
  \/ reqs[s].gateway \in ThrowKinds
  \/ reqs[s].gateway = "text" /\ reqs[s].reply = <<>>
StoreFaults == {"find", "save", "duplicate", "gone", "views"}

\* C6 as stated: when the model call fails (invalid credentials, quota,
\* network, malformed or empty output) and no store operation fails, the
\* caller receives a success response with a non-empty fallback reply and
\* the session holds that reply as its bot message.
C6_Original ==
  \A s \in Turns :
    (GatewayFailed(s) /\ reqs[s].failed \notin StoreFaults) =>
       /\ Succeeded(s)
       /\ reqs[s].response.reply # <<>>
       /\ AppendedPair(s, Stripped(reqs[s].message.text), reqs[s].response.reply)

C8_Original ==
  \A s \in Turns :
    reqs[s].failed = "views" =>
      /\ Succeeded(s)
      /\ reqs[s].response.reply = reqs[s].reply

\* C9 as stated: whenever the caller of a turn receives an error response,
\* the store holds no message of that turn: a session the turn would have
\* created does not exist, and a session it read holds what it held.
C9_Original ==
  \A s \in Turns :
    reqs[s].response.status >= 400 =>
      \A c \in conversations : c.id = reqs[s].conv.id =>
        ~reqs[s].conv.isNew /\ c.messages = reqs[s].before

(***************************************************************************)
(* Ownership.                                                              *)
(***************************************************************************)
\* The handler in slot s has taken this step.
Stepped(s) == reqs'[s] # reqs[s]
InTurn(s) == reqs[s].op = "chat" /\ reqs[s].conv # NoConv

C2_Resolved ==
  \A s \in Slots : InTurn(s) =>
    LET r == reqs[s]
    IN /\ r.target = "own" => (~r.conv.isNew /\ r.conv.sessionId = r.sid)
       /\ r.target # "own" => (r.conv.isNew /\ r.before = <<>>)
       /\ \A c \in conversations : c.id = r.conv.id => c.userId = r.user
       /\ (r.pc = "done" /\ r.response.status = 200) =>
            /\ r.response.sessionId = r.conv.sessionId
            /\ r.response.conversationId = r.conv.id
            /\ r.wrote = r.pushed

C2_Step ==
  \A s \in Slots :
    (Stepped(s) /\ reqs'[s].op = "chat") =>
       \* sessions of other users are left as they are
       /\ \A c \in conversations : c.userId # reqs'[s].user => c \in conversations'
       /\ \A c \in conversations' : c.userId # reqs'[s].user => c \in conversations
       \* the save writes the session of the turn, and only it
       /\ (reqs[s].pc = "save" /\ reqs'[s].pc = "views") =>
            /\ \E c \in conversations' :
                 /\ c.id = reqs[s].conv.id /\ c.sessionId = reqs[s].conv.sessionId
                 /\ c.userId = reqs[s].user
                 /\ \A d \in conversations' : d # c => d \in conversations /\ d.id # c.id
            /\ reqs[s].conv.isNew =>
                 \A c \in conversations : c.sessionId # reqs[s].conv.sessionId /\ c.id # reqs[s].conv.id
            /\ ~reqs[s].conv.isNew =>
                 \E c \in conversations :
                   c.id = reqs[s].conv.id /\ AppendTo(c, reqs[s].pushed) \in conversations'
       /\ ~(reqs[s].pc = "save" /\ reqs'[s].pc = "views") => conversations' = conversations

\* C2: a turn whose sessionId does not name a stored session of the caller
\* works on a new session owned by the caller, under a generated sessionId
\* that no stored session has when it is saved, and writes only that
\* session; it neither reads nor changes a session of another user.  A turn
\* whose sessionId names a session of the caller appends to that session
\* and returns the same sessionId.
C2_SessionResolution == []C2_Resolved /\ [][C2_Step]_vars

\* A successful turn that was sent the sessionId of another user's session,
\* which is still stored, next to the session the turn created.
C2_Witness ==
  \E s \in Turns :
    /\ Succeeded(s) /\ reqs[s].target = "foreign"
    /\ \E c \in conversations : c.sessionId = reqs[s].sid /\ c.userId # reqs[s].user
    /\ \E c \in conversations : c.id = reqs[s].conv.id /\ c.userId = reqs[s].user

Scoped == {"history", "export", "feedback", "delete"}
NotFoundError(op) ==
  IF op = "history" THEN "No conversations found"
  ELSE "Conversation not found or access denied"
\* The answer to a request that names no session of the caller.
NotFoundAnswer(r) ==
  IF r.op = "feedback" /\ (~r.rating.present \/ r.rating.tenths = 0)
  THEN Response(400, "Conversation ID and rating are required")
  ELSE IF r.op = "feedback" /\ (r.rating.tenths < 10 \/ r.rating.tenths > 50)
  THEN Response(400, "Rating must be between 1 and 5")
  ELSE Response(404, NotFoundError(r.op))

C3_Answer ==
  \A s \in Slots :
    (reqs[s].op \in Scoped /\ reqs[s].target \in {"foreign", "missing"}) =>
       /\ reqs[s].pc = "done"
       /\ reqs[s].response = NotFoundAnswer(reqs[s])
       /\ reqs[s].response.messages = <<>> /\ reqs[s].response.sessionId = NoSid
       /\ reqs[s].conv = NoConv /\ reqs[s].doc = NoDoc

C3_Step ==
  \A s \in Slots :
    (Stepped(s) /\ reqs'[s].op \in Scoped /\ reqs'[s].target \in {"foreign", "missing"}) =>
       /\ conversations' = conversations
       /\ feedbacks' = feedbacks

\* C3: getHistory, exportConversation, submitFeedback and deleteSession,
\* called with the id of a session of another user, answer exactly as for an
\* id that names no session (404 for a well-formed request), return none of
\* the session's data and leave every session and feedback record as it is.
C3_ForeignIsNotFound == []C3_Answer /\ [][C3_Step]_vars

\* A delete request for another user's session, which has a feedback
\* record, has been answered.
C3_Witness ==
  \E s \in Slots :
    /\ reqs[s].op = "delete" /\ reqs[s].pc = "done" /\ reqs[s].target = "foreign"
    /\ \E c \in conversations :
         /\ c.sessionId = reqs[s].sid /\ c.userId # reqs[s].user
         /\ \E f \in feedbacks : f.conversationId = c.id

(***************************************************************************)
(* Append-only message log.                                                *)
(***************************************************************************)
IsPrefix(a, b) == Len(a) <= Len(b) /\ SubSeq(b, 1, Len(a)) = a

\* C10: in every step, each stored session either keeps its messages as a
\* prefix of its messages after the step, or is removed by a step of
\* deleteSession or deleteAll of its owner.
C10_AppendOnly ==
  [][\A c \in conversations :
       \/ \E d \in conversations' : d.id = c.id /\ IsPrefix(c.messages, d.messages)
       \/ \E s \in Slots :
            /\ reqs[s].pc = "idle"
            /\ reqs'[s].op \in {"delete", "deleteAll"}
            /\ reqs'[s].pc \in {"cascade", "cascadeAll"}
            /\ reqs'[s].user = c.userId]_vars

\* A session that has taken two turns and a feedback.
C10_Witness ==
  \E c \in conversations : Len(c.messages) = 4 /\ c.feedback.rating # 0

(***************************************************************************)
(* Chronological order.                                                    *)
(***************************************************************************)
\* C11 as stated: in every stored session the timestamps of the messages
\* are strictly increasing in sequence order.
C11_Original ==
  \A c \in conversations :
    \A i, j \in 1..Len(c.messages) :
      i < j => c.messages[i].timestamp < c.messages[j].timestamp

\* C11, in the weaker reading that the timestamps never decrease along the
\* messages of a stored session (strictly increasing timestamps would imply
\* it), also while two turns on one session are in flight.
C11_Chronological ==
  \A c \in conversations :
    \A i, j \in 1..Len(c.messages) :
      i < j => c.messages[i].timestamp <= c.messages[j].timestamp

(***************************************************************************)
(* Feedback.                                                               *)
(***************************************************************************)
Rated == {s \in Slots : reqs[s].op = "feedback" /\ reqs[s].pc = "done"}
\* The rating is an integer from 1 to 5.
IntegerRating(rating) ==
  rating.present /\ rating.tenths \in {10, 20, 30, 40, 50}

\* C12 as stated: when no store operation fails, a feedback request whose
\* rating is missing or is not an integer from 1 to 5 is answered 4xx and
\* has neither built nor written a feedback record; a request with an
\* integer rating from 1 to 5 for a conversation of the caller is accepted
\* and stores that rating in the record and in the session.
C12_Original ==
  \A s \in Rated :
    LET r == reqs[s]
    IN r.failed = "none" =>
         IF IntegerRating(r.rating)
         THEN r.target = "own" =>
                /\ r.response.status = 200
                /\ r.doc.rating * 10 = r.rating.tenths
                /\ r.doc \in feedbacks
         ELSE /\ r.response.status \in 400..499
              /\ r.doc = NoDoc

\* C13 as stated: the isHelpful of a feedback record is the isHelpful of the
\* request when the request has one, and (rating >= 4) otherwise.
C13_Original ==
  \A s \in Slots :
    LET r == reqs[s]
    IN (r.op = "feedback" /\ r.doc # NoDoc) =>
         r.doc.isHelpful = IF r.isHelpful = "absent" THEN r.rating.tenths >= 40
                           ELSE r.isHelpful = "true"

\* C18 as stated: after a successful turn, the last message of its session
\* is the bot message of the turn, and its metadata holds the ids of the
\* knowledge entries of the context, the latency and the length of the
\* reply.
C18_Original ==
  \A s \in Turns : Succeeded(s) =>
    \A c \in conversations : c.id = reqs[s].conv.id =>
      LET stored == c.messages[Len(c.messages)].metadata
          attached == BotMetadata(reqs[s].reply, reqs[s].context, reqs[s].responseTime)
      IN /\ DOMAIN attached \subseteq DOMAIN stored
         /\ \A k \in DOMAIN attached : stored[k] = attached[k]

(***************************************************************************)
(* Deletion.                                                               *)
(***************************************************************************)
\* C14: when deleteSession answers success, the session it deleted is not
\* stored and no feedback record refers to its conversation id; the session
\* is removed by the first step of the handler and the feedback records by
\* the second.
C14_DeleteCascades ==
  /\ [](\A s \in Slots :
          (reqs[s].op = "delete" /\ reqs[s].pc = "done" /\ reqs[s].response.status = 200) =>
             /\ \A c \in conversations : c.id # reqs[s].conv.id
             /\ \A f \in feedbacks : f.conversationId # reqs[s].conv.id)
  /\ [][\A s \in Slots :
          (Stepped(s) /\ reqs'[s].op = "delete" /\ reqs'[s].pc = "cascade") =>
             /\ \E c \in conversations :
                  /\ c.id = reqs'[s].conv.id /\ c.sessionId = reqs'[s].sid
                  /\ c.userId = reqs'[s].user
                  /\ conversations' = conversations \ {c}]_vars

\* deleteSession has answered success while nothing else is in flight; the
\* one session ever stored had the one feedback record ever written, and no
\* feedback record is left.
C14_Witness ==
  \E s \in Slots :
    /\ reqs[s].op = "delete" /\ reqs[s].pc = "done" /\ reqs[s].response.status = 200
    /\ \A t \in Slots \ {s} : reqs[t].pc = "idle"
    /\ nextOid = 1 /\ nfeedbacks = 1 /\ feedbacks = {}
    /\ Len(reqs[s].before) = 0

\* C15: deleteAll removes exactly the sessions of the caller and answers with
\* their number; when it answers success the caller owns no session and no
\* feedback record; the sessions and the feedback records of the other
\* users are left as they are.
C15_DeleteAll ==
  /\ [](\A s \in Slots :
          (reqs[s].op = "deleteAll" /\ reqs[s].pc = "done" /\ reqs[s].response.status = 200) =>
             /\ \A c \in conversations : c.userId # reqs[s].user
             /\ \A f \in feedbacks : f.userId # reqs[s].user)
  /\ [][\A s \in Slots :
          (Stepped(s) /\ reqs'[s].op = "deleteAll") =>
             LET u == reqs'[s].user
             IN /\ \A c \in conversations : c.userId # u => c \in conversations'
                /\ \A f \in feedbacks : f.userId # u => f \in feedbacks'
                /\ conversations' \subseteq conversations
                /\ feedbacks' \subseteq feedbacks
                /\ reqs'[s].pc = "cascadeAll" =>
                     /\ reqs'[s].response.count =
                          Cardinality({c \in conversations : c.userId = u})
                     /\ \A c \in conversations' : c.userId # u
                /\ reqs[s].pc = "cascadeAll" =>
                     /\ conversations' = conversations
                     /\ reqs'[s].response.status = 200 =>
                          reqs'[s].response.count = reqs[s].response.count]_vars

\* deleteAll has answered success with the count 1 while another user has a
\* session with a feedback record.
C15_Witness ==
  \E s \in Slots :
    /\ reqs[s].op = "deleteAll" /\ reqs[s].pc = "done" /\ reqs[s].response.status = 200
    /\ reqs[s].response.count = 1
    /\ \E c \in conversations : \E f \in feedbacks :
         c.userId # reqs[s].user /\ f.conversationId = c.id /\ f.userId = c.userId

(***************************************************************************)
(* Order of the steps of a turn.                                           *)
(***************************************************************************)
TurnOrder ==
  <<"resolved", "retrieved", "invoked", "returned", "saving", "saved", "responded">>
Upto(n) == SubSeq(TurnOrder, 1, n)

C20_Steps ==
  \A s \in Slots :
    (reqs[s].op = "chat" /\ ValidateMessage(reqs[s].message) = "ok") =>
      LET r == reqs[s]
          did == {r.steps[i] : i \in 1..Len(r.steps)}
      IN /\ \E n \in 0..Len(TurnOrder) :
              \/ r.steps = Upto(n)
              \/ n < Len(TurnOrder) /\ r.steps = Upto(n) \o <<"failed">>
         /\ r.response.status = 200 <=> r.steps = TurnOrder
         /\ r.pc = "generate" <=> r.steps = Upto(3)
         /\ r.pc = "save" <=> r.steps = Upto(5)
         /\ r.gateway # "none" <=> Len(r.steps) >= 4
         /\ r.context # <<>> => "retrieved" \in did
         /\ r.wrote # <<>> <=> "saved" \in did

C20_Step ==
  \A s \in Slots :
    (Stepped(s) /\ reqs'[s].op = "chat") =>
       /\ IsPrefix(reqs[s].steps, reqs'[s].steps)
       /\ conversations' # conversations <=>
            (reqs[s].steps = Upto(5) /\ reqs'[s].steps = Upto(6))

\* C20: the steps of a turn that passed validation are, in this order, the
\* session resolved, the knowledge retrieved, the gateway invoked, the
\* gateway returned, the save started, the save completed, the success
\* response sent; a turn takes each of them at most once and stops at the
\* first failure; the gateway is awaited exactly after the retrieval, the
\* store changes in the step that completes the save and in no other, and a
\* success response is sent exactly by the turns that took every step.
C20_StepOrder == []C20_Steps /\ [][C20_Step]_vars

\* A turn on an existing session has answered success with the fallback
\* reply of a model call that threw.
C20_Witness ==
  \E s \in Turns :
    /\ Succeeded(s) /\ reqs[s].steps = TurnOrder
    /\ reqs[s].gateway \in ThrowKinds /\ reqs[s].before # <<>>

(***************************************************************************)
(* Quick replies and intent.                                               *)
(***************************************************************************)
Derived == {s \in Slots : reqs[s].op = "replies" /\ reqs[s].pc = "done"}
Has(xs, x) == \E i \in 1..Len(xs) : xs[i] = x
CategoriesOf(results) == {results[i].category : i \in 1..Len(results)}

\* C16 as stated, a default question about IT counted as an IT-labeled
\* suggestion: quick replies derived from results whose categories are
\* policy and it hold the policy label and an IT suggestion, and are at
\* most five.
C16_Original ==
  \A s \in Derived :
    CategoriesOf(reqs[s].context) = {"policy", "it"} =>
      /\ Has(reqs[s].quickReplies, "Company policies")
      /\ \/ Has(reqs[s].quickReplies, "IT support")
         \/ Has(reqs[s].quickReplies, "Who do I contact for IT issues?")
      /\ Len(reqs[s].quickReplies) <= 5

\* The positions of the results whose category no earlier result has.
FirstSeen(results) ==
  {i \in 1..Len(results) : \A j \in 1..(i - 1) : results[j].category # results[i].category}
\* The k-th smallest element of a set of numbers.
Nth(P, k) == CHOOSE i \in P : Cardinality({j \in P : j < i}) = k - 1
\* The four defaults followed by one label for each distinct category, in
\* the order in which the categories first occur.
Suggestions(results) ==
  DefaultReplies \o
  [k \in 1..Cardinality(FirstSeen(results)) |->
     CategoryLabel(results[Nth(FirstSeen(results), k)].category)]

\* C19: the quick replies are the first five elements of the four defaults
\* followed by one label for each distinct category of the results in
\* first-seen order, whatever the query and the role; they are four or five
\* and begin with the four defaults in their order, and no two are equal.
C19_QuickReplies ==
  \A s \in Derived :
    LET got == reqs[s].quickReplies
        all == Suggestions(reqs[s].context)
    IN /\ Len(got) = Min(5, Len(all))
       /\ \A k \in 1..Len(got) : got[k] = all[k]
       /\ Len(got) \in {4, 5}
       /\ SubSeq(got, 1, 4) = DefaultReplies
       /\ \A i, j \in 1..Len(got) : i # j => got[i] # got[j]
       /\ \A i, j \in 1..Len(all) : i # j => all[i] # all[j]

\* Quick replies derived from three results, the first two of one category
\* and the third of another.
C19_Witness ==
  \E s \in Derived :
    /\ Len(reqs[s].context) = 3
    /\ reqs[s].context[1].category = reqs[s].context[2].category
    /\ reqs[s].context[3].category # reqs[s].context[1].category
    /\ Len(reqs[s].quickReplies) = 5
    /\ reqs[s].quickReplies[5] = CategoryLabel(reqs[s].context[1].category)

Classified == {s \in Slots : reqs[s].op = "intent" /\ reqs[s].pc = "done"}
SameLetter(a, b) ==
  a = b \/ \E k \in 1..Len(LowerCase) : {a, b} = {LowerCase[k], UpperCase[k]}
\* The keyword occurs in the text, whatever the case of the letters, with
\* no letter, digit or underscore right before it or right after it.
OccursAsWord(text, keyword) ==
  \E i \in 1..(Len(text) - Len(keyword) + 1) :
    /\ \A j \in 1..Len(keyword) : SameLetter(text[i + j - 1], keyword[j])
    /\ i = 1 \/ ~IsWordChar(text[i - 1])
    /\ i + Len(keyword) > Len(text) \/ ~IsWordChar(text[i + Len(keyword)])
MatchesIntent(text, intent) == \E keyword \in Alternatives(intent) : OccursAsWord(text, keyword)
Priority ==
  <<"greeting", "thanks", "policy", "benefit", "hr", "it", "emergency", "equipment",
    "training">>

\* C17: analyzeQueryIntent returns the first intent, in the order greeting,
\* thanks, policy, benefit, hr, it, emergency, equipment, training, one of
\* whose keywords occurs in the message as a whole word in any case, and
\* general when there is none; "Hello there!" gives greeting, "How do I
\* request vacation?" gives hr, "My laptop won't turn on" gives it and
\* "asdlkj random text" gives general.
C17_IntentPriority ==
  \A s \in Classified :
    LET q == reqs[s].query
        got == reqs[s].intent
    IN /\ (\A k \in 1..Len(Priority) : ~MatchesIntent(q, Priority[k])) => got = "general"
       /\ \A k \in 1..Len(Priority) :
            (MatchesIntent(q, Priority[k]) /\ \A h \in 1..(k - 1) : ~MatchesIntent(q, Priority[h]))
               => got = Priority[k]
       /\ q = HelloThere => got = "greeting"
       /\ q = RequestVacation => got = "hr"
       /\ q = LaptopWontTurnOn => got = "it"
       /\ q = RandomText => got = "general"

\* "My laptop won't turn on", which has a keyword of it and a keyword of
\* equipment, has been classified.
C17_Witness ==
  \E s \in Classified :
    /\ reqs[s].query = LaptopWontTurnOn /\ reqs[s].intent = "it"
    /\ MatchesIntent(reqs[s].query, "it") /\ MatchesIntent(reqs[s].query, "equipment")

(***************************************************************************)
(* Feedback records and the conversations they name.                       *)
(***************************************************************************)
\* The conversation that a feedback record names is stored and belongs to
\* the user the record names.
Linked(f) ==
  \E c \in conversations : c.id = f.conversationId /\ c.userId = f.userId

\* C25: in every reachable state each stored feedback record names a stored
\* conversation that its userId owns, also while a feedback submission runs
\* next to a delete of the conversation and after a cascade delete that
\* failed.
C25_Original == \A f \in feedbacks : Linked(f)

(***************************************************************************)
(* View counts under concurrent chat turns.                                *)
(***************************************************************************)
\* Chat turns only, NumSlots of them in flight at a time, whose view-count
\* updates can reject one by one.
EnvViews ==
  [msgs |-> {Msg(<<Run("sp", 1), Run("hours", 5), Run("sp", 1)>>)},
   outcomes |-> {[kind |-> "text", raw |-> <<Run("answer", 20)>>, cause |-> "none"]},
   faults |-> {"views"}, errors |-> {"MongoServerError"},
   ratings |-> {}, helpful |-> {}, supplied |-> {},
   ticks |-> {0}, chats |-> MaxRaceChats, users |-> Users, sids |-> AnySid]
NextViews == \E s \in Slots : ChatStep(s, EnvViews) \/ Retire(s)
SpecViews == Init /\ [][NextViews]_vars

\* The turn in slot s has its view-count updates settle in this step.
ViewsSettle(s) == reqs[s].op = "chat" /\ reqs[s].pc = "views" /\ reqs'[s].pc = "done"

\* The number of views the step adds to entry e.
Added(e) == kb'[e].viewCount - kb[e].viewCount

C21_Step ==
  \A e \in KbIds :
    /\ kb[e].viewCount >= 0 /\ kb'[e].viewCount >= 0
    /\ Added(e) \in {0, 1}
    /\ Added(e) = 1 =>
         \E s \in Slots : ViewsSettle(s) /\ e \in ContextIds(reqs[s].context)
    /\ \A s \in Slots :
         ViewsSettle(s) /\ reqs'[s].response.status = 200
           /\ e \in ContextIds(reqs[s].context) => Added(e) = 1

\* C21: whatever the interleaving of concurrent chat turns, a step adds to
\* the viewCount of an entry exactly one for the turn whose update of that
\* entry settles in it (every context entry of a turn answered with success,
\* at most the context entries of a turn whose updates rejected) and nothing
\* otherwise; viewCount never decreases and is never negative.
C21_ViewCounts == [][C21_Step]_vars

\* A turn has counted its view of an entry that another turn in flight is
\* about to count as well, after an earlier turn counted it.
C21_Witness ==
  \E s \in Slots, t \in Slots :
    /\ s # t
    /\ reqs[s].op = "chat" /\ reqs[s].pc = "done" /\ reqs[s].response.status = 200
    /\ reqs[t].op = "chat" /\ reqs[t].pc = "views"
    /\ "k1" \in ContextIds(reqs[s].context) \cap ContextIds(reqs[t].context)
    /\ kb["k1"].viewCount = 2

(***************************************************************************)
(* Concurrent turns on one session.                                        *)
(***************************************************************************)
\* The turn in slot s has its conversation.save() settle in this step.
Saves(s) == reqs[s].op = "chat" /\ reqs[s].pc = "save" /\ reqs'[s].pc = "views"

\* The two messages at positions i and i + 1 of the session are the user
\* message and the bot message that the turn in slot s wrote.
PairAt(c, i, s) ==
  /\ i + 1 <= Len(c.messages)
  /\ <<c.messages[i], c.messages[i + 1]>> = reqs[s].wrote
  /\ c.messages[i].role = "user" /\ c.messages[i + 1].role = "bot"
  /\ c.messages[i + 1].content = reqs[s].reply

\* Two turns that read the same state of one existing session and have both
\* saved.
Overlapping(s, t) ==
  /\ s # t
  /\ reqs[s].op = "chat" /\ reqs[t].op = "chat"
  /\ ~reqs[s].conv.isNew /\ reqs[s].conv.id = reqs[t].conv.id
  /\ reqs[s].before = reqs[t].before
  /\ reqs[s].wrote # <<>> /\ reqs[t].wrote # <<>>

\* The session holds what the two turns read, then the pair of one turn,
\* then the pair of the other.
BothPairsStored(s, t) ==
  \E c \in conversations :
    /\ c.id = reqs[s].conv.id
    /\ Len(c.messages) >= Len(reqs[s].before) + 4
    /\ SubSeq(c.messages, 1, Len(reqs[s].before)) = reqs[s].before
    /\ \E i, j \in (Len(reqs[s].before) + 1)..Len(c.messages) :
         /\ i + 2 <= j \/ j + 2 <= i
         /\ PairAt(c, i, s) /\ PairAt(c, j, t)

C22_Step ==
  /\ \A s \in Slots :
       Saves(s) /\ ~reqs[s].conv.isNew =>
         \E c \in conversations, d \in conversations' :
           /\ c.id = reqs[s].conv.id /\ d.id = c.id
           /\ IsPrefix(reqs[s].before, c.messages)
           /\ Len(reqs'[s].wrote) = 2
           /\ d.messages = c.messages \o reqs'[s].wrote
  /\ \A s, t \in Slots : Overlapping(s, t) => BothPairsStored(s, t)

\* C22: when two turns on the same existing session run concurrently and
\* both save, the save of each appends its user message and its bot message,
\* in this order and next to each other, to what the session holds at that
\* moment, so the session afterwards holds the four messages of the two
\* turns after the messages both turns read.
C22_ConcurrentTurns == [][C22_Step]_vars

\* Two turns that read the same state of a session have both saved, and are
\* both about to answer with success.
C22_Witness ==
  \E s, t \in Slots :
    /\ Overlapping(s, t)
    /\ reqs[s].pc = "views" /\ reqs[t].pc = "views"
    /\ reqs[s].before # <<>>
    /\ \E c \in conversations :
         c.id = reqs[s].conv.id /\ Len(c.messages) = Len(reqs[s].before) + 4

(***************************************************************************)
(* What a feedback submission leaves behind.                               *)
(***************************************************************************)
\* Requests of every kind one at a time, the feedback with and without a
\* question and a response of its own, while the two saves of the feedback
\* handler can reject.
EnvFeedback ==
  [msgs |-> {Msg(<<Run("sp", 1), Run("hours", 5), Run("sp", 1)>>)},
   outcomes |-> {[kind |-> "text", raw |-> <<Run("answer", 20)>>, cause |-> "none"]},
   faults |-> {"fbSave", "convSave"}, errors |-> {"MongoServerError"},
   ratings |-> {Rating(30), Rating(50)}, helpful |-> {"absent"},
   supplied |-> SuppliedInputs,
   ticks |-> {0}, chats |-> MaxChats, users |-> Users, sids |-> AnySid]
NextFeedback == ChatStep(1, EnvFeedback) \/ SecondaryStep(1, EnvFeedback) \/ Retire(1)
SpecFeedback == Init /\ [][NextFeedback]_vars

\* The feedback submissions that have been answered.
Submitted == {s \in Slots : reqs[s].op = "feedback" /\ reqs[s].pc = "done"}

\* The records that name the conversation and the caller of the submission.
RecordsOf(s) ==
  {f \in feedbacks : f.conversationId = reqs[s].cid /\ f.userId = reqs[s].user
                       /\ f.id = reqs[s].response.feedbackId}

\* The question and the response that the record of the submission in slot
\* s is to hold, c being the conversation.
Expected(s, c) ==
  [question |-> OrElse(reqs[s].supplied.question, LastContent(c.messages, "user")),
   botResponse |-> OrElse(reqs[s].supplied.response, LastContent(c.messages, "bot"))]

C23_Success(s) ==
  \E c \in conversations :
    /\ c.id = reqs[s].cid /\ c.userId = reqs[s].user
    /\ Cardinality(RecordsOf(s)) = 1
    /\ \A f \in RecordsOf(s) :
         /\ f.rating * 10 = reqs[s].rating.tenths
         /\ f.question = Expected(s, c).question
         /\ f.botResponse = Expected(s, c).botResponse
         /\ c.feedback.rating = f.rating

\* Neither a record was written nor the session stamped by the submission.
C23_Error(s) ==
  /\ reqs[s].doc \notin feedbacks
  /\ \A c \in conversations : c.id = reqs[s].cid => c.feedback = NoFeedback

\* C23 as stated: a feedback submission answered with success has left
\* exactly one new record, linked to the conversation and to the caller,
\* with the submitted rating and with the supplied question and response or,
\* without them, the contents of the last user and bot messages, and the
\* session's feedback field holds that rating; a submission answered with an
\* error has changed neither the records nor the session's feedback field.
C23_Original ==
  \A s \in Submitted :
    /\ reqs[s].response.status = 200 => C23_Success(s)
    /\ reqs[s].response.status >= 400 => C23_Error(s)

(***************************************************************************)
(* The admin routes that write the knowledge base (admin.js 85-396), and   *)
(* the search on what they leave behind.                                   *)
(***************************************************************************)
\* Largest number of knowledge entries created.
MaxDocs == 2

\* The callers of the admin routes: an employee, an administrator and a
\* member of the HR staff.
Staff == {"u1", "u2", "u3"}
StaffRole(u) == IF u = "u3" THEN "hr" ELSE RoleOf(u)

\* getAuthMiddleware(['admin', 'hr']) for a caller with a valid token.
Allowed(u) == StaffRole(u) \in {"admin", "hr"}

\* The categories the requests name.
AdminCategories == {"policy", "hr-only", "admin-only"}

\* The access roles that upload and Q&A creation derive from the category.
AccessRolesFor(category) ==
  IF category = "admin-only" THEN {"admin"}
  ELSE IF category = "hr-only" THEN {"admin", "hr"}
  ELSE {"employee"}

\* The accessRoles of the body of an update: missing, or an array.
NoRoles == [given |-> FALSE, roles |-> {}]
RolesGiven(roles) == [given |-> TRUE, roles |-> roles]
RoleInputs == {NoRoles} \cup {RolesGiven(r) : r \in AccessRoleSets}

\* The id of the next document created.
NewId(kbs) == Cardinality(DOMAIN kbs) + 1

\* kbs with the entry stored under id.
Stored(kbs, id, entry) ==
  [e \in DOMAIN kbs \cup {id} |-> IF e = id THEN entry ELSE kbs[e]]

\* new KnowledgeBase({...}) of POST /upload (lines 139-152).
UploadedDoc(title, content, category, u) ==
  [title |-> title, content |-> content, category |-> category,
   accessRoles |-> AccessRolesFor(category), isActive |-> TRUE, viewCount |-> 0,
   createdBy |-> u]

\* new KnowledgeBase({...}) of POST /qa (lines 386-396): the title holds the
\* question, the content the question and the answer.
QaDoc(question, answer, category, u) ==
  [title |-> question, content |-> question \cup answer, category |-> category,
   accessRoles |-> AccessRolesFor(category), isActive |-> TRUE, viewCount |-> 0,
   createdBy |-> u]

\* updateData of PUT /documents/:id (lines 297-305) applied to the document.
UpdatedDoc(doc, category, isActive, accessRoles) ==
  [doc EXCEPT !.category = category, !.isActive = isActive,
              !.accessRoles = IF accessRoles.given THEN accessRoles.roles ELSE @]

AdminDone(op, u, status) ==
  [IdleReq EXCEPT !.op = op, !.pc = "done", !.user = u, !.role = StaffRole(u),
                  !.response = Response(status, "")]

InitAdmin ==
  /\ kb = << >>
  /\ conversations = {}
  /\ feedbacks = {}
  /\ reqs = [s \in Slots |-> IdleReq]
  /\ nextOid = 0
  /\ nchats = 0
  /\ nfeedbacks = 0
  /\ clock = 0
  /\ loginAttempts = [ip \in Ips |-> NoAttempts]
  /\ client = IdleClient

\* POST /admin/upload
Upload(s) ==
  /\ Free(s)
  /\ \E u \in Staff, category \in AdminCategories :
       IF ~Allowed(u)
       THEN reqs' = [reqs EXCEPT ![s] = AdminDone("upload", u, 403)] /\ UNCHANGED kb
       ELSE /\ Cardinality(DOMAIN kb) < MaxDocs
            /\ kb' = Stored(kb, NewId(kb), UploadedDoc({"hours"}, {"vpn"}, category, u))
            /\ reqs' = [reqs EXCEPT ![s] = AdminDone("upload", u, 200)]
  /\ UNCHANGED <<conversations, feedbacks, nextOid, nchats, nfeedbacks, clock, loginAttempts, client>>

\* POST /admin/qa
AddQa(s) ==
  /\ Free(s)
  /\ \E u \in Staff, category \in AdminCategories :
       IF ~Allowed(u)
       THEN reqs' = [reqs EXCEPT ![s] = AdminDone("qa", u, 403)] /\ UNCHANGED kb
       ELSE /\ Cardinality(DOMAIN kb) < MaxDocs
            /\ kb' = Stored(kb, NewId(kb), QaDoc({"vpn"}, {"hours"}, category, u))
            /\ reqs' = [reqs EXCEPT ![s] = AdminDone("qa", u, 200)]
  /\ UNCHANGED <<conversations, feedbacks, nextOid, nchats, nfeedbacks, clock, loginAttempts, client>>

\* PUT /admin/documents/:id with the title and the content as they are.
UpdateDocument(s) ==
  /\ Free(s)
  /\ \E u \in Staff, id \in 1..MaxDocs, category \in AdminCategories,
        isActive \in BOOLEAN, accessRoles \in RoleInputs :
       IF ~Allowed(u)
       THEN reqs' = [reqs EXCEPT ![s] = AdminDone("update", u, 403)] /\ UNCHANGED kb
       ELSE IF id \notin DOMAIN kb
       THEN reqs' = [reqs EXCEPT ![s] = AdminDone("update", u, 404)] /\ UNCHANGED kb
       ELSE IF StaffRole(u) # "admin" /\ kb[id].createdBy # u
       THEN reqs' = [reqs EXCEPT ![s] = AdminDone("update", u, 403)] /\ UNCHANGED kb
       ELSE /\ kb' = [kb EXCEPT ![id] = UpdatedDoc(@, category, isActive, accessRoles)]
            /\ reqs' = [reqs EXCEPT ![s] = AdminDone("update", u, 200)]
  /\ UNCHANGED <<conversations, feedbacks, nextOid, nchats, nfeedbacks, clock, loginAttempts, client>>

NextAdmin == Upload(1) \/ AddQa(1) \/ UpdateDocument(1) \/ Search(1) \/ Retire(1)
SpecAdmin == InitAdmin /\ [][NextAdmin]_vars

\* The searches that have returned.
Searched == {s \in Slots : reqs[s].op = "search" /\ reqs[s].pc = "done"}

\* C26 as stated: whatever uploads, Q&A creations and document updates came
\* before, a search returns no entry of category admin-only to a caller with
\* role employee or hr and no entry of category hr-only to a caller with
\* role employee.
C26_Original ==
  \A s \in Searched :
    \A i \in 1..Len(reqs[s].context) :
      /\ reqs[s].context[i].category = "admin-only" => reqs[s].role = "admin"
      /\ reqs[s].context[i].category = "hr-only" => reqs[s].role # "employee"

\* C27 as stated: a search with role admin leaves out an active entry that
\* matches the query only when the limit is reached, whatever access roles
\* the entry was given.
C27_Original ==
  \A s \in Searched :
    reqs[s].role = "admin" =>
      \A e \in DOMAIN kb :
        /\ kb[e].isActive
        /\ TextScore(kb[e], reqs[s].message.text) > 0
        /\ e \notin ContextIds(reqs[s].context)
        => Len(reqs[s].context) = reqs[s].limit

(***************************************************************************)
(* The chat page of the browser client (ChatUI.js 27-104) against the chat *)
(* router.                                                                 *)
(***************************************************************************)
\* Largest number of messages the client sends.
MaxSends == 3

\* What the chat page sends: a message that is not blank, with the session
\* id it holds, as the user who is logged in.
EnvSession ==
  [msgs |-> {Msg(<<Run("hours", 5)>>)},
   outcomes |-> {[kind |-> "text", raw |-> <<Run("answer", 20)>>, cause |-> "none"]},
   faults |-> {}, errors |-> {"MongoServerError"},
   ratings |-> {}, helpful |-> {}, supplied |-> {},
   ticks |-> {0}, chats |-> MaxSends, users |-> {client.user}, sids |-> {client.sessionId}]

\* Lines 82-85: the session id the page holds once it has the response.
Adopt(held, response) ==
  IF response.status = 200 /\ response.sessionId # NoSid /\ held = NoSid
  THEN response.sessionId
  ELSE held

\* Lines 53-70: sendMessage posts the message.
ClientSend(s) == ChatStart(s, EnvSession)

\* Lines 72-103: the response of the turn arrives.
ClientReceive(s) ==
  /\ reqs[s].op = "chat" /\ reqs[s].pc = "done"
  /\ client' = [client EXCEPT !.sessionId = Adopt(@, reqs[s].response)]
  /\ reqs' = [reqs EXCEPT ![s] = IdleReq]
  /\ UNCHANGED <<conversations, feedbacks, kb, nextOid, nchats, nfeedbacks, clock, loginAttempts>>

\* AuthContext.js 119-129 and 88-103: logout and login of another user; the
\* page mounts again and reads the session id from localStorage (lines
\* 28-32).
SwitchUser ==
  /\ \A s \in Slots : reqs[s].pc = "idle"
  /\ \E u \in Users \ {client.user} : client' = [client EXCEPT !.user = u]
  /\ UNCHANGED <<conversations, feedbacks, kb, reqs, nextOid, nchats, nfeedbacks, clock,
                 loginAttempts>>

\* The response of a request of another kind has been delivered.
RetireOther(s) == reqs[s].op # "chat" /\ Retire(s)

NextSession ==
  \/ ClientSend(1) \/ ChatSearch(1, EnvSession) \/ ChatGenerate(1, EnvSession)
  \/ ChatSave(1, EnvSession) \/ ChatViews(1, EnvSession) \/ ClientReceive(1)
  \/ DeleteSession(1, EnvSession) \/ DeleteCascade(1, EnvSession) \/ RetireOther(1)
  \/ SwitchUser
SpecSession == Init /\ [][NextSession]_vars

\* C28 as stated: when the response of a successful chat turn has arrived,
\* the session id the client holds is the one the server returned for the
\* turn.
C28_Original ==
  [][\A s \in Slots :
       /\ reqs[s].op = "chat" /\ reqs[s].pc = "done" /\ reqs'[s].pc = "idle"
       /\ reqs[s].response.status = 200
       => client'.sessionId = reqs[s].response.sessionId]_vars

(***************************************************************************)
(* POST /auth/login and its rate limit (auth.js 7-68, 137-201).            *)
(***************************************************************************)
MAX_ATTEMPTS == 5
\* 15 * 60 * 1000
LOCK_TIME == 900000

\* The time between two requests is a multiple of a third of the lock time,
\* and at most MaxTicks of them pass.
LoginTick == LOCK_TIME \div 3
MaxTicks == 4

\* What a login request carries: a body that fails validation, the email of
\* no active user, a wrong password, or an email with its password.
Creds == {"invalid", "noUser", "badPassword", "ok"}

Locked_Never(attempts, now) == FALSE

\* Lines 51-62: the IP has an entry with MAX_ATTEMPTS or more attempts whose
\* lock time has not passed.
Locked(attempts, now) ==
  /\ attempts.present
  /\ attempts.count >= MAX_ATTEMPTS
  /\ attempts.firstAttempt + LOCK_TIME - now > 0

\* Lines 51-64: the entry as checkRateLimit leaves it when it calls next().
AfterCheck(attempts, now) ==
  IF attempts.present /\ attempts.count >= MAX_ATTEMPTS THEN NoAttempts ELSE attempts

\* Lines 149-154: the entry once the attempt is tracked.
Tracked(attempts, now) ==
  IF ~attempts.present
  THEN [present |-> TRUE, count |-> 1, firstAttempt |-> now]
  ELSE [attempts EXCEPT !.count = @ + 1]

LoginDone(base, status) == [base EXCEPT !.pc = "done", !.response = Response(status, "")]

\* Lines 47-157: checkRateLimit, the validators and the handler up to its
\* first await; the validators resolve without leaving the event-loop turn
\* of the request.
LoginStart(s) ==
  /\ Free(s)
  /\ \E ip \in Ips, creds \in Creds :
       LET base == [IdleReq EXCEPT !.op = "login", !.ip = ip, !.creds = creds]
           checked == AfterCheck(loginAttempts[ip], clock)
       IN IF Locked(loginAttempts[ip], clock)
          THEN /\ reqs' = [reqs EXCEPT ![s] = LoginDone(base, 429)]
               /\ UNCHANGED loginAttempts
          ELSE IF creds = "invalid"
          THEN /\ reqs' = [reqs EXCEPT ![s] = LoginDone(base, 400)]
               /\ loginAttempts' = [loginAttempts EXCEPT ![ip] = checked]
          ELSE /\ reqs' = [reqs EXCEPT ![s] = [base EXCEPT !.pc = "findUser"]]
               /\ loginAttempts' = [loginAttempts EXCEPT ![ip] = Tracked(checked, clock)]
  /\ UNCHANGED <<conversations, feedbacks, kb, nextOid, nchats, nfeedbacks, clock, client>>

\* Lines 157-163: User.findOne({ email, isActive: true }) settles.
LoginFind(s) ==
  /\ At(s, "findUser")
  /\ reqs' = [reqs EXCEPT ![s] =
       IF @.creds = "noUser" THEN LoginDone(@, 401) ELSE [@ EXCEPT !.pc = "compare"]]
  /\ UNCHANGED <<conversations, feedbacks, kb, nextOid, nchats, nfeedbacks, clock,
                 loginAttempts, client>>

\* Lines 166-180: user.comparePassword(password) settles; a match deletes
\* the entry of the IP, and the handler awaits user.save().
LoginCompare(s) ==
  /\ At(s, "compare")
  /\ IF reqs[s].creds = "badPassword"
     THEN /\ reqs' = [reqs EXCEPT ![s] = LoginDone(@, 401)]
          /\ UNCHANGED loginAttempts
     ELSE /\ reqs' = [reqs EXCEPT ![s].pc = "userSave"]
          /\ loginAttempts' = [loginAttempts EXCEPT ![reqs[s].ip] = NoAttempts]
  /\ UNCHANGED <<conversations, feedbacks, kb, nextOid, nchats, nfeedbacks, clock, client>>

\* Lines 180-200: user.save() settles; the token is generated and sent.
LoginSaved(s) ==
  /\ At(s, "userSave")
  /\ reqs' = [reqs EXCEPT ![s] =
       LoginDone([@ EXCEPT !.issued = Jwt(reqs[s].user, TRUE, FALSE)], 200)]
  /\ UNCHANGED <<conversations, feedbacks, kb, nextOid, nchats, nfeedbacks, clock,
                 loginAttempts, client>>

\* Time passes between two steps of the handlers.
Pass ==
  /\ clock + LoginTick <= MaxTicks * LoginTick
  /\ clock' = clock + LoginTick
  /\ UNCHANGED <<conversations, feedbacks, kb, reqs, nextOid, nchats, nfeedbacks,
                 loginAttempts, client>>

NextLogin ==
  \/ \E s \in Slots :
       LoginStart(s) \/ LoginFind(s) \/ LoginCompare(s) \/ LoginSaved(s) \/ Retire(s)
  \/ Pass
SpecLogin == Init /\ [][NextLogin]_vars

\* The login request in slot s arrives in this step.
Arrives(s) == reqs[s].pc = "idle" /\ reqs'[s].op = "login"
\* It reaches the credential check.
ReachesCheck(s) == Arrives(s) /\ reqs'[s].pc = "findUser"
\* Its password is found to match.
Succeeds(s) == reqs[s].op = "login" /\ reqs[s].pc = "compare" /\ reqs'[s].pc = "userSave"
\* MAX_ATTEMPTS attempts are counted for the IP, the first of them less than
\* LOCK_TIME ago.
Throttled(ip) ==
  /\ loginAttempts[ip].present
  /\ loginAttempts[ip].count >= MAX_ATTEMPTS
  /\ clock < loginAttempts[ip].firstAttempt + LOCK_TIME
\* The counter of the IP is reset in this step.
Reset(ip) ==
  /\ loginAttempts[ip].present
  /\ \/ ~loginAttempts'[ip].present
     \/ loginAttempts'[ip].count <= loginAttempts[ip].count
        /\ loginAttempts'[ip] # loginAttempts[ip]

C24_Step ==
  /\ \A ip \in Ips : loginAttempts[ip].count <= MAX_ATTEMPTS
  /\ \A s \in Slots :
       LET ip == reqs'[s].ip
           a == loginAttempts[ip]
       IN /\ ReachesCheck(s) =>
               /\ ~Throttled(ip)
               /\ loginAttempts'[ip].present
               /\ loginAttempts'[ip].count =
                    IF a.present /\ a.count < MAX_ATTEMPTS THEN a.count + 1 ELSE 1
          /\ Arrives(s) /\ Throttled(ip) =>
               /\ reqs'[s].pc = "done" /\ reqs'[s].response.status = 429
               /\ loginAttempts' = loginAttempts
          /\ Succeeds(s) => ~loginAttempts'[reqs[s].ip].present
  /\ \A ip \in Ips :
       /\ Reset(ip) =>
            \E s \in Slots :
              /\ reqs'[s].ip = ip
              /\ \/ Succeeds(s)
                 \/ Arrives(s) /\ loginAttempts[ip].count >= MAX_ATTEMPTS /\ ~Throttled(ip)
       /\ loginAttempts'[ip] # loginAttempts[ip] /\ ~Reset(ip) =>
            \E s \in Slots : ReachesCheck(s) /\ reqs'[s].ip = ip

\* C24: per IP, the counter never exceeds MAX_ATTEMPTS and grows by one with
\* each login request that reaches the credential check, so at most
\* MAX_ATTEMPTS requests reach it between two resets, however concurrent
\* login requests interleave; while MAX_ATTEMPTS attempts are counted and
\* LOCK_TIME has not passed since the first of them, every login request
\* from the IP is answered 429 and changes nothing; the counter is reset
\* only by a successful login, which deletes it, and by the first request
\* after the lock time.
C24_LoginThrottle == [][C24_Step]_vars

\* A login request is answered 429 five minutes or more after the first of
\* the five counted attempts, while an earlier request from the same IP
\* still awaits the comparison of its password.
C24_Witness ==
  \E s, t \in Slots :
    /\ reqs[s].op = "login" /\ reqs[s].pc = "done" /\ reqs[s].response.status = 429
    /\ reqs[t].op = "login" /\ reqs[t].pc = "compare" /\ reqs[t].ip = reqs[s].ip
    /\ loginAttempts[reqs[s].ip].count = MAX_ATTEMPTS
    /\ clock > loginAttempts[reqs[s].ip].firstAttempt

(***************************************************************************)
(* Tokens: POST /auth/refresh (auth.js 306-344) and the auth middleware    *)
(* (JwtService.getAuthMiddleware), against a client that knows the         *)
(* password of u1 only.                                                    *)
(***************************************************************************)
\* The users a token can name: the stored, active users and one that is not
\* stored.
Subjects == Users \cup {"u0"}

\* jwt.verify(token, secret): the payload, for a JWT with the server's
\* signature that has not expired.
VerifyToken(token) == token.kind = "jwt" /\ token.signed /\ ~token.expired

\* jwt.decode(token): the payload of any JWT; the signature is not looked at.
DecodeToken(token) == token.kind = "jwt"

\* What a client can put together without the secret.
Forgeable == {NoToken, Garbage} \cup {Jwt(sub, FALSE, e) : sub \in Subjects, e \in BOOLEAN}

\* generateToken(user)
GenerateToken(userId) == Jwt(userId, TRUE, FALSE)

\* POST /auth/refresh with the token the client holds.
Refresh(s) ==
  /\ Free(s)
  /\ LET token == client.token
         base == [IdleReq EXCEPT !.op = "refresh", !.pc = "done", !.token = token]
     IN reqs' = [reqs EXCEPT ![s] =
          IF token.kind = "none" THEN [base EXCEPT !.response = Response(401, "No token provided")]
          ELSE IF ~DecodeToken(token) THEN [base EXCEPT !.response = Response(401, "Invalid token")]
          ELSE IF token.sub \notin Users
          THEN [base EXCEPT !.response = Response(404, "User not found or inactive")]
          ELSE [base EXCEPT !.user = token.sub, !.issued = GenerateToken(token.sub),
                            !.response = Response(200, "")]]
  /\ UNCHANGED <<conversations, feedbacks, kb, nextOid, nchats, nfeedbacks, clock,
                 loginAttempts, client>>

\* A request to a route of the chat router: the auth middleware
\* (server.js 152-195); status 200 stands for next() with req.user set.
Access(s) ==
  /\ Free(s)
  /\ LET token == client.token
         base == [IdleReq EXCEPT !.op = "access", !.pc = "done", !.token = token]
     IN reqs' = [reqs EXCEPT ![s] =
          IF token.kind = "none" THEN [base EXCEPT !.response = Response(401, "NO_TOKEN")]
          ELSE IF ~VerifyToken(token) THEN [base EXCEPT !.response = Response(401, "INVALID_TOKEN")]
          ELSE [base EXCEPT !.user = token.sub, !.role = RoleOf(token.sub),
                            !.response = Response(200, "")]]
  /\ UNCHANGED <<conversations, feedbacks, kb, nextOid, nchats, nfeedbacks, clock,
                 loginAttempts, client>>

\* The response of a login or of a refresh arrives; the client stores the
\* token of a success (AuthContext.js 41-43, 91-93).
TokenReceive(s) ==
  /\ reqs[s].op \in {"login", "refresh"} /\ reqs[s].pc = "done"
  /\ client' = [client EXCEPT !.token =
                  IF reqs[s].response.status = 200 THEN reqs[s].issued ELSE @]
  /\ reqs' = [reqs EXCEPT ![s] = IdleReq]
  /\ UNCHANGED <<conversations, feedbacks, kb, nextOid, nchats, nfeedbacks, clock, loginAttempts>>

\* The response of a request to the chat router arrives.
RetireAccess(s) == reqs[s].op = "access" /\ Retire(s)

\* The client replaces its token by one it has put together.
Forge ==
  /\ \A s \in Slots : reqs[s].pc = "idle"
  /\ \E token \in Forgeable : client' = [client EXCEPT !.token = token]
  /\ UNCHANGED <<conversations, feedbacks, kb, reqs, nextOid, nchats, nfeedbacks, clock,
                 loginAttempts>>

\* The token the client holds expires.
Expire ==
  /\ \A s \in Slots : reqs[s].pc = "idle"
  /\ client.token.kind = "jwt" /\ ~client.token.expired
  /\ client' = [client EXCEPT !.token.expired = TRUE]
  /\ UNCHANGED <<conversations, feedbacks, kb, reqs, nextOid, nchats, nfeedbacks, clock,
                 loginAttempts>>

NextRefresh ==
  \/ LoginStart(1) \/ LoginFind(1) \/ LoginCompare(1) \/ LoginSaved(1)
  \/ Refresh(1) \/ Access(1) \/ TokenReceive(1) \/ RetireAccess(1)
  \/ Forge \/ Expire
SpecRefresh == Init /\ [][NextRefresh]_vars

\* C29 as stated: a refresh issues a token only for a presented token with a
\* valid signature, and the auth middleware accepts only the identity that
\* logged in (the client can log in as u1 only).
C29_Original ==
  \A s \in Slots :
    /\ reqs[s].op = "refresh" /\ reqs[s].pc = "done" /\ reqs[s].response.status = 200
         => reqs[s].token.signed
    /\ reqs[s].op = "access" /\ reqs[s].pc = "done" /\ reqs[s].response.status = 200
         => reqs[s].user = "u1"

(***************************************************************************)
(* The response interceptor of the client's axios instance                 *)
(* (AuthContext.js 30-61) against the statuses the server answers with.    *)
(***************************************************************************)
\* Largest number of requests of the client that wait for each other.
MaxDepth == 4

\* The status POST /auth/refresh answers with (auth.js 308-323).
RefreshStatus(token) ==
  IF token.kind = "none" \/ ~DecodeToken(token) THEN 401
  ELSE IF token.sub \notin Users THEN 404 ELSE 200

\* The status of a route behind the auth middleware (server.js 158-172).
AccessStatus(token) ==
  IF token.kind = "none" \/ ~VerifyToken(token) THEN 401 ELSE 200

\* The status of POST /auth/login while the IP is not locked
\* (auth.js 139-172).
LoginStatus(creds) ==
  IF creds = "invalid" THEN 400 ELSE IF creds = "ok" THEN 200 ELSE 401

\* A request of the axios instance: its url, the _retry mark of its config,
\* and whether it is in flight ("sent") or its interceptor awaits the
\* refresh request above it ("refreshing").
Call(url, creds) == [url |-> url, creds |-> creds, retry |-> FALSE, phase |-> "sent"]

\* The status the server answers the call with; the request interceptor has
\* attached the token of localStorage.
StatusOf(call, token) ==
  IF call.url = "refresh" THEN RefreshStatus(token)
  ELSE IF call.url = "login" THEN LoginStatus(call.creds)
  ELSE AccessStatus(token)

\* The token in the body of a successful response.
TokenOf(call, token) ==
  IF call.url = "refresh" THEN GenerateToken(token.sub)
  ELSE IF call.url = "login" THEN GenerateToken(client.user)
  ELSE token

Top(calls) == calls[Len(calls)]
Pop(calls) == SubSeq(calls, 1, Len(calls) - 1)

\* Lines 34-36: the interceptor handles the error response itself.
Intercepts(call, status) == status = 401 /\ ~call.retry

\* The page calls the API or submits the login form.
ClientCall ==
  /\ client.calls = <<>>
  /\ \E url \in {"api", "login"}, creds \in Creds :
       /\ url = "api" => creds = "ok"
       /\ client' = [client EXCEPT !.calls = <<Call(url, creds)>>, !.refreshes = 0,
                                   !.outcome = "none"]
  /\ UNCHANGED <<conversations, feedbacks, kb, reqs, nextOid, nchats, nfeedbacks, clock,
                 loginAttempts>>

\* The response of the innermost request arrives with a 2xx status: the
\* request at the bottom is done (login stores its token, lines 91-93); a
\* refresh request hands its token to the interceptor below, which stores it
\* and sends its own request again (lines 41-48).
ClientResolve ==
  /\ client.calls # <<>>
  /\ Top(client.calls).phase = "sent"
  /\ LET call == Top(client.calls)
         status == StatusOf(call, client.token)
         rest == Pop(client.calls)
     IN /\ status = 200
        /\ client' =
             IF rest = <<>>
             THEN [client EXCEPT !.calls = <<>>, !.outcome = "ok",
                     !.token = IF call.url = "login" THEN TokenOf(call, @) ELSE @]
             ELSE [client EXCEPT !.token = TokenOf(call, @),
                     !.calls = [rest EXCEPT ![Len(rest)].phase = "sent"]]
  /\ UNCHANGED <<conversations, feedbacks, kb, reqs, nextOid, nchats, nfeedbacks, clock,
                 loginAttempts>>

\* Lines 34-40: the response is a 401 and the config has no _retry mark; the
\* interceptor marks it and posts /auth/refresh, a request of the same axios
\* instance with a config of its own.
ClientRefresh ==
  /\ client.calls # <<>>
  /\ Top(client.calls).phase = "sent"
  /\ Len(client.calls) < MaxDepth
  /\ LET call == Top(client.calls)
         n == Len(client.calls)
     IN /\ Intercepts(call, StatusOf(call, client.token))
        /\ client' = [client EXCEPT
             !.calls = Append([@ EXCEPT ![n].retry = TRUE, ![n].phase = "refreshing"],
                              Call("refresh", "ok")),
             !.refreshes = @ + 1]
  /\ UNCHANGED <<conversations, feedbacks, kb, reqs, nextOid, nchats, nfeedbacks, clock,
                 loginAttempts>>

\* Lines 49-58: the response is another error, or a 401 for a marked config:
\* the request rejects; every interceptor that awaits it removes the token,
\* logs the user out and rejects in turn.
ClientReject ==
  /\ client.calls # <<>>
  /\ Top(client.calls).phase = "sent"
  /\ LET call == Top(client.calls)
         status == StatusOf(call, client.token)
     IN /\ status # 200
        /\ ~Intercepts(call, status)
        /\ client' =
             IF Len(client.calls) = 1
             THEN [client EXCEPT !.calls = <<>>, !.outcome = "failed"]
             ELSE [client EXCEPT !.calls = <<>>, !.outcome = "loggedOut", !.token = NoToken]
  /\ UNCHANGED <<conversations, feedbacks, kb, reqs, nextOid, nchats, nfeedbacks, clock,
                 loginAttempts>>

NextInterceptor ==
  ClientCall \/ ClientResolve \/ ClientRefresh \/ ClientReject \/ Forge \/ Expire
SpecInterceptor == Init /\ [][NextInterceptor]_vars

\* C30 as stated: for a request answered 401 the interceptor makes at most
\* one refresh attempt, also when the refresh request is answered 401.
C30_Original == client.refreshes <= 1

====
